---- MODULE Spec2Model ----
(***************************************************************************)
(* Model of the Terraform-state inventory plugin                           *)
(* (plugins/inventory/terraform.py): backends with a per-instance cache,   *)
(* regex stack expansion, resource drivers, the first-wins merge of        *)
(* TerraformPlugin.get_hosts and the group assignment of                   *)
(* InventoryModule.parse; and of the exclude inventory plugin, the cache   *)
(* of the jerakia inventory plugin, Jerakia.dot_to_dictval and the include *)
(* inventory plugin, each as a specification of its own over the variables *)
(* it uses.                                                                *)
(*                                                                         *)
(* Python strings that the code inspects character by character (keys,     *)
(* prefixes, stack identifiers, regular expressions, URLs) are sequences   *)
(* of one-character strings.  Python dicts are functions whose DOMAIN is   *)
(* the set of keys, so a missing key (KeyError, .get default) is a key     *)
(* outside the DOMAIN.  A value whose Python type the code tests carries   *)
(* that type in a field t.                                                 *)
(***************************************************************************)
EXTENDS Integers, Sequences, FiniteSets, TLC

VARIABLES
    stacks_conf,    \* option `stacks`: ordered list of stack definitions
    backends_conf,  \* option `backends`: name -> backend definition
    server,         \* the Consul server: listed identifiers and their payloads
    pc,             \* position of get_hosts: parse, stack, path, done, failed
    backends,       \* parse_backends result: name -> backend object
    cache,          \* name -> TerraformBackend.cache (url -> value)
    stacks,         \* parse_stacks result: list of TerraformStack objects
    si,             \* expand_stacks: index of the stack being processed
    all_stacks,     \* _expand_paths: value returned by backend.get_stacks()
    paths,          \* expand_conf: the expanded paths of the current stack
    pi,             \* expand_conf: index of the path being processed
    sret,           \* expand_conf: ret of the current stack
    ret,            \* expand_stacks: ret
    out,            \* value returned by get_hosts
    error,          \* the exception that left get_hosts, NoErr when none
    stdout,         \* messages written by print / display
    requests,       \* name -> urls requested by kv_get, in order
    last_call,      \* the last backend call: its number, arguments, response, outcome
    processed,      \* (stack index, path, driver) of every extraction done
    options,        \* the options of the inventory plugin that is running
    inventory,      \* the Ansible inventory: hosts, groups, children, variables
    group_dict,     \* exclude: inventory.get_groups_dict() taken at the start
    host_dict,      \* exclude: the names of inventory.hosts taken at the start
    plugin_cache,   \* jerakia: self._cache, cache key -> variables
    lookups,        \* jerakia: the hosts looked up in Jerakia, in order
    hi,             \* jerakia: index of the host being processed
    cache_enabled,  \* jerakia: self.cache_enabled
    dot_dic,        \* dot_to_dictval: the mapping searched
    dot_key,        \* dot_to_dictval: the dotted path
    ignore_missing_keys,    \* Jerakia.ignore_missing_keys
    dot_ret,        \* dot_to_dictval: what the call returned or raised
    path_i,         \* include: index of the path of `files` being processed
    tried           \* include: the plugins tried so far, with path and outcome

\* the variables of get_hosts
tf_vars == <<stacks_conf, backends_conf, server, backends, cache, stacks, si,
             all_stacks, paths, pi, sret, ret, out, stdout, requests,
             last_call, processed>>

exclude_vars == <<group_dict, host_dict>>
jerakia_vars == <<plugin_cache, lookups, hi, cache_enabled>>
dot_vars == <<dot_dic, dot_key, ignore_missing_keys, dot_ret>>
include_vars == <<path_i, tried>>

vars == <<tf_vars, pc, error, options, inventory, exclude_vars, jerakia_vars, dot_vars,
          include_vars>>

-----------------------------------------------------------------------------
(* Bounds of the explored inputs *)

MaxStacks == 2      \* longest `stacks` list
MaxKeys == 2        \* longest key listing of the server

-----------------------------------------------------------------------------
(* Python values and dict helpers *)

None == "None"
NoErr == "NoErr"

PyNone == [t |-> "None"]
PyList(of, v) == [t |-> "list", of |-> of, v |-> v]
PyDict(v) == [t |-> "dict", v |-> v]

\* dict.update / {**d, **e}
Update(d, e) ==
    [k \in (DOMAIN d) \cup (DOMAIN e) |-> IF k \in DOMAIN e THEN e[k] ELSE d[k]]

Range(s) == {s[i] : i \in DOMAIN s}

RECURSIVE Concat(_)
Concat(ss) == IF ss = <<>> THEN <<>> ELSE Head(ss) \o Concat(Tail(ss))

-----------------------------------------------------------------------------
(* Strings of the program *)

s_db1 == <<"d", "b", "-", "1">>
s_db2 == <<"d", "b", "-", "2">>
s_app1 == <<"a", "p", "p", "-", "1">>
s_app2 == <<"a", "p", "p", "-", "2">>

\* host names and group names
node1 == <<"n", "o", "d", "e", "1">>
node2 == <<"n", "o", "d", "e", "2">>
node3 == <<"n", "o", "d", "e", "3">>
node4 == <<"n", "o", "d", "e", "4">>
a_b == <<"a", "_", "b">>
a_dash_b == <<"a", "-", "b">>
s_web == <<"w", "e", "b">>
s_terraform == <<"t", "e", "r", "r", "a", "f", "o", "r", "m">>

\* TerraformConsul.default_config['prefix']: '/terraform/state/'
CONSUL_PREFIX ==
    <<"/", "t", "e", "r", "r", "a", "f", "o", "r", "m", "/",
      "s", "t", "a", "t", "e", "/">>

s_tf == <<"t", "f", "/">>

\* regular expressions used as stack names
re_db == <<"d", "b", "-">>                          \* 'db-'
re_all == <<".", "*">>                              \* '.*'
re_b == <<"b", "-">>                                \* 'b-'
re_app_all == <<"a", "p", "p", "-", ".", "*">>      \* 'app-.*'

-----------------------------------------------------------------------------
(* str.lstrip(chars): drops every leading character that is in chars *)

RECURSIVE lstrip(_, _)
lstrip(s, chars) ==
    IF s # <<>> /\ Head(s) \in Range(chars) THEN lstrip(Tail(s), chars) ELSE s

\* TerraformBackend.remove_prefix
remove_prefix(lst, prefix) == [i \in DOMAIN lst |-> lstrip(lst[i], prefix)]

-----------------------------------------------------------------------------
(* re.compile(name).match: literals, '.', and the '*' quantifier; a match  *)
(* starts at the first character and may end anywhere.                     *)

re_char(c, x) == c = "." \/ c = x

RECURSIVE re_match_here(_, _)
re_match_here(p, s) ==
    IF p = <<>> THEN TRUE
    ELSE IF Len(p) >= 2 /\ p[2] = "*"
         THEN \/ re_match_here(Tail(Tail(p)), s)
              \/ (s # <<>> /\ re_char(p[1], s[1]) /\ re_match_here(p, Tail(s)))
         ELSE s # <<>> /\ re_char(p[1], s[1]) /\ re_match_here(Tail(p), Tail(s))

\* re.search, the unanchored variant
re_search(p, s) == \E k \in 0..Len(s) : re_match_here(p, SubSeq(s, k + 1, Len(s)))

re_match(p, s) == re_match_here(p, s)

\* a filter that stops at the first identifier that matches
filter_match_first(name, lst) ==
    LET all == SelectSeq(lst, LAMBDA s : re_match(name, s))
    IN IF all = <<>> THEN <<>> ELSE <<Head(all)>>

\* a filter that falls back to the whole listing when nothing matches
filter_match_or_all(name, lst) ==
    LET all == SelectSeq(lst, LAMBDA s : re_match(name, s))
    IN IF all = <<>> THEN lst ELSE all

\* list(filter(r.match, all_stacks))
filter_match(name, lst) == SelectSeq(lst, LAMBDA s : re_match(name, s))

-----------------------------------------------------------------------------
(* Terraform state documents held by the server.  A Consul entry is a dict *)
(* with an optional Value; a Value is base64 text of JSON text of a state  *)
(* document; base64.b64decode and json.loads undo one layer each and fail  *)
(* on anything else.                                                       *)

b64encode(x) == [enc |-> "base64", data |-> x]
json_dumps(x) == [enc |-> "json", data |-> x]
garbage == [enc |-> "garbage"]

b64decode(v) ==
    IF v.enc = "base64" THEN [err |-> NoErr, val |-> v.data]
    ELSE [err |-> "binascii.Error", val |-> garbage]

json_loads(x) ==
    IF x.enc = "json" THEN [err |-> NoErr, val |-> x.data]
    ELSE [err |-> "JSONDecodeError", val |-> garbage]

Attrs(h) ==
    [inventory_hostname |-> h, vars |-> [ansible_host |-> h], groups |-> <<s_web, <<>>>>]
Inst(h) == [attributes |-> Attrs(h)]
InstNoVars(h) == [attributes |-> [inventory_hostname |-> h, groups |-> <<>>]]
InstNoAttr == [schema_version |-> "0"]
Res(type, insts) == [type |-> type, instances |-> insts]
ResNoInstances(type) == [type |-> type]
State(resources) == [version |-> "4", resources |-> resources]
StateNoResources == [version |-> "4"]
Entry(k, doc) == [Key |-> k, Value |-> b64encode(json_dumps(doc))]
EntryNoValue(k) == [Key |-> k]
One(k, h) == <<Entry(k, State(<<Res("ansible_host", <<Inst(h)>>)>>))>>

Schemes == {"distinct", "collide", "gaps", "broken", "odd"}

\* the payload stored under key k for stack identifier id
Payload(scheme, id, k) ==
    CASE scheme = "distinct" ->
           IF id = s_db1 THEN One(k, node1)
           ELSE IF id = s_db2 THEN One(k, node2)
           ELSE IF id = s_app1 THEN One(k, node3)
           ELSE One(k, node4)
      [] scheme = "collide" ->
           IF id = s_db2
           THEN <<Entry(k, State(<<Res("ansible_host",
                                      <<Inst(node1), Inst(node2), Inst(node2)>>)>>))>>
           ELSE One(k, node1)
      [] scheme = "gaps" ->
           IF id = s_db1
           THEN <<EntryNoValue(k),
                  Entry(k, State(<<Res("ansible_host", <<Inst(node1)>>)>>)),
                  Entry(k, State(<<Res("ansible_host", <<Inst(node2)>>)>>))>>
           ELSE IF id = s_db2 THEN <<EntryNoValue(k)>>
           ELSE <<Entry(k, State(<<Res("aws_instance", <<Inst(node3)>>),
                                   Res("ansible_host", <<InstNoAttr, Inst(node2)>>),
                                   ResNoInstances("ansible_host"),
                                   Res("ansible_host", <<Inst(node1)>>)>>))>>
      [] scheme = "underscore" ->
           IF id = s_db1 THEN One(k, a_b) ELSE One(k, a_dash_b)
      [] scheme = "broken" ->
           IF id = s_db1 THEN One(k, node1)
           ELSE IF id = s_db2 THEN <<[Key |-> k, Value |-> garbage]>>
           ELSE <<Entry(k, StateNoResources)>>
      [] OTHER ->
           IF id = s_db1 THEN <<[Key |-> k, Value |-> b64encode(garbage)]>>
           ELSE IF id = s_db2
           THEN <<Entry(k, State(<<Res("ansible_host", <<Inst(node1), InstNoVars(node2)>>)>>))>>
           ELSE <<Entry(k, State(<<Res("libvirt_domain", <<Inst(node3)>>)>>))>>

Ids == {s_db1, s_db2, s_app1}

\* the key namespaces of the server: every identifier is stored under each
Namespaces == <<CONSUL_PREFIX, s_tf>>

startswith(s, p) == Len(p) <= Len(s) /\ SubSeq(s, 1, Len(p)) = p

\* all keys of the server, in listing order
ServerKeys(srv) ==
    Concat([n \in DOMAIN Namespaces |->
              [i \in DOMAIN srv.ids |-> Namespaces[n] \o srv.ids[i]]])

\* the possible answers of the server to GET url (connection failure, a
\* status with a body); key is the kv key of the url
Refused == [conn |-> FALSE, status |-> 0, body |-> PyNone]
Answer(status, body) == [conn |-> TRUE, status |-> status, body |-> body]

Failures ==
    {Refused, Answer(500, PyNone), Answer(200, PyDict(<<>>)),
     Answer(200, [t |-> "notjson"])}

Responses(srv, key, recurse) ==
    LET under == SelectSeq(ServerKeys(srv), LAMBDA k : startswith(k, key))
        exact == {p \in {<<n, i>> : n \in DOMAIN Namespaces, i \in DOMAIN srv.ids} :
                     Namespaces[p[1]] \o srv.ids[p[2]] = key}
        body == IF recurse THEN PyList("str", under)
                ELSE LET p == CHOOSE p \in exact : TRUE
                     IN PyList("dict", Payload(srv.scheme, srv.ids[p[2]], key))
        found == IF recurse THEN under # <<>> ELSE exact # {}
    IN Failures \cup
       (IF found THEN {Answer(200, body), Answer(203, body)}
        ELSE {Answer(404, PyNone)})

-----------------------------------------------------------------------------
(* Backends *)

\* requests.codes.ok
HTTP_OK == 200

\* TerraformPlugin.default_backend_conf
default_backend_conf == [name |-> None, backend |-> "local"]

\* TerraformConsul.default_config
TerraformConsul_default_config ==
    [type |-> None, prefix |-> CONSUL_PREFIX, protocol |-> "http",
     host |-> "127.0.0.1", port |-> "8600", version |-> "1", token |-> None]

\* TerraformBackend.get_config: defaults of the class, then the definition
TerraformBackend_get_config(default_config, base) == Update(default_config, base)

\* TerraformBackend.__init__ for the Consul class
TerraformConsul_new(name, base) ==
    [cls |-> "TerraformConsul", name |-> name,
     config |-> TerraformBackend_get_config(TerraformConsul_default_config, base)]

\* TerraformConsul.get_url
get_url(config, key) ==
    <<config["protocol"], "://", config["host"], ":", config["port"],
      "/v", config["version"], "/kv">> \o key

\* kv_get with the disabled `nofail` branch: a failure yields an empty list
kv_get_nofail(url, resp) ==
    IF ~resp.conn \/ resp.status # 200 \/ resp.body.t = "notjson"
    THEN [err |-> NoErr, val |-> PyList("dict", <<>>)]
    ELSE [err |-> NoErr, val |-> resp.body]

\* TerraformConsul.kv_get on the server's answer
kv_get(url, resp) ==
    IF ~resp.conn THEN [err |-> "AnsibleError:fetch", val |-> PyNone]
    ELSE IF resp.status = HTTP_OK
         THEN IF resp.body.t = "notjson"
              THEN [err |-> "JSONDecodeError", val |-> PyNone]
              ELSE [err |-> NoErr, val |-> resp.body]
         ELSE [err |-> "AnsibleError:status", val |-> PyNone]

Result(err, val, c, req) == [err |-> err, val |-> val, cache |-> c, req |-> req]

\* TerraformConsul.get_stacks; c is self.cache, resp the server's answer
\* when a request is made
TerraformConsul_get_stacks(bk, c, resp) ==
    LET prefix == bk.config["prefix"]
        url == get_url(bk.config, prefix)
    IN IF url \in DOMAIN c THEN Result(NoErr, c[url], c, <<>>)
       ELSE LET payload == kv_get(url, resp)
            IN IF payload.err # NoErr THEN Result(payload.err, PyNone, c, <<url>>)
               ELSE IF payload.val.t # "list"
                    THEN Result("Exception:Wrong type", PyNone, c, <<url>>)
               ELSE LET r == PyList("str", remove_prefix(payload.val.v, prefix))
                    IN Result(NoErr, r, Update(c, url :> r), <<url>>)

\* a loop that gives up at the first entry without a Value
RECURSIVE get_resources_loop_stop(_, _, _)
get_resources_loop_stop(entries, c, url) ==
    IF entries = <<>> THEN Result(NoErr, PyNone, c, <<url>>)
    ELSE LET payload == Head(entries)
         IN IF "Value" \notin DOMAIN payload
            THEN Result(NoErr, PyNone, c, <<url>>)
            ELSE LET raw == b64decode(payload["Value"])
                     doc == json_loads(raw.val)
                 IN IF raw.err # NoErr THEN Result(raw.err, PyNone, c, <<url>>)
                    ELSE IF doc.err # NoErr THEN Result(doc.err, PyNone, c, <<url>>)
                    ELSE LET value == IF "resources" \in DOMAIN doc.val
                                      THEN PyList("dict", doc.val["resources"])
                                      ELSE PyNone
                         IN Result(NoErr, value, Update(c, url :> value), <<url>>)

\* a loop that stores the Value under the url before it decodes it
RECURSIVE get_resources_loop_eager(_, _, _)
get_resources_loop_eager(entries, c, url) ==
    IF entries = <<>> THEN Result(NoErr, PyNone, c, <<url>>)
    ELSE LET payload == Head(entries)
         IN IF "Value" \notin DOMAIN payload
            THEN get_resources_loop_eager(Tail(entries), c, url)
            ELSE LET raw == b64decode(payload["Value"])
                     doc == json_loads(raw.val)
                     c0 == Update(c, url :> payload["Value"])
                 IN IF raw.err # NoErr THEN Result(raw.err, PyNone, c0, <<url>>)
                    ELSE IF doc.err # NoErr THEN Result(doc.err, PyNone, c0, <<url>>)
                    ELSE LET value == IF "resources" \in DOMAIN doc.val
                                      THEN PyList("dict", doc.val["resources"])
                                      ELSE PyNone
                         IN Result(NoErr, value, Update(c, url :> value), <<url>>)

\* the loop of get_resources over the entries of the payload
RECURSIVE get_resources_loop(_, _, _)
get_resources_loop(entries, c, url) ==
    IF entries = <<>> THEN Result(NoErr, PyNone, c, <<url>>)
    ELSE LET payload == Head(entries)
         IN IF "Value" \notin DOMAIN payload
            THEN get_resources_loop(Tail(entries), c, url)
            ELSE LET raw == b64decode(payload["Value"])
                     doc == json_loads(raw.val)
                 IN IF raw.err # NoErr THEN Result(raw.err, PyNone, c, <<url>>)
                    ELSE IF doc.err # NoErr THEN Result(doc.err, PyNone, c, <<url>>)
                    ELSE LET value == IF "resources" \in DOMAIN doc.val
                                      THEN PyList("dict", doc.val["resources"])
                                      ELSE PyNone
                         IN Result(NoErr, value, Update(c, url :> value), <<url>>)

\* TerraformConsul.get_resources
TerraformConsul_get_resources(bk, c, path, resp) ==
    LET prefix == bk.config["prefix"]
        url == get_url(bk.config, prefix \o path)
    IN IF url \in DOMAIN c THEN Result(NoErr, c[url], c, <<>>)
       ELSE LET payload_ == kv_get(url, resp)
            IN IF payload_.err # NoErr THEN Result(payload_.err, PyNone, c, <<url>>)
               ELSE IF payload_.val.t # "list"
                    THEN Result("Exception:Wrong type", PyNone, c, <<url>>)
               ELSE get_resources_loop(payload_.val.v, c, url)

-----------------------------------------------------------------------------
(* Resource drivers.  A host map (a Python dict in insertion order) is a   *)
(* sequence of entries [name, ref]; ref names the attributes dict of one   *)
(* instance inside a resource list, which the code passes by reference.    *)

Names(d) == {d[i].name : i \in DOMAIN d}

\* TerraformStack.driver_map
driver_map == [libvirt_domain |-> "LibvirtDomain", ansible_host |-> "AnsibleHost"]

\* Driver.types of each class
driver_types(cls) ==
    IF cls = "AnsibleHost" THEN {"ansible_host"} ELSE {"libvirt_domain"}

\* a filter that keeps the resources of every type
filter_provider_type_any(instances, types) == [r \in DOMAIN instances |-> r]

\* Driver.filter_provider_type: the positions of the resources kept
filter_provider_type(instances, types) ==
    SelectSeq([r \in DOMAIN instances |-> r],
              LAMBDA r : "type" \in DOMAIN instances[r] /\ instances[r]["type"] \in types)

\* Driver.__init__: iterating None or calling .get on a str raises
Driver_new(cls, resources) ==
    IF resources.t = "None" THEN [err |-> "TypeError", data |-> <<>>]
    ELSE IF resources.of # "dict" THEN [err |-> "AttributeError", data |-> <<>>]
    ELSE [err |-> NoErr, data |-> filter_provider_type(resources.v, driver_types(cls))]

\* an instances list that takes the first instance of every resource only
driver_instances_first(resources, data) ==
    Concat([k \in DOMAIN data |->
              IF "instances" \in DOMAIN resources[data[k]]
                 /\ resources[data[k]]["instances"] # <<>>
              THEN << <<data[k], 1>> >>
              ELSE <<>>])

\* the instances list built by Driver.get_hosts, as (resource, instance) positions
driver_instances(resources, data) ==
    Concat([k \in DOMAIN data |->
              IF "instances" \in DOMAIN resources[data[k]]
              THEN [i \in DOMAIN resources[data[k]]["instances"] |-> <<data[k], i>>]
              ELSE <<>>])

has_attributes(host_res) == "attributes" \in DOMAIN host_res

\* a loop in which a later instance replaces the record kept under its name
RECURSIVE AnsibleHost_loop_last_wins(_, _, _, _)
AnsibleHost_loop_last_wins(resources, hosts, r_, msgs) ==
    IF hosts = <<>> THEN [err |-> NoErr, ret |-> r_, msgs |-> msgs]
    ELSE LET p == Head(hosts)
             host_res == resources[p[1]]["instances"][p[2]]
         IN IF ~has_attributes(host_res)
            THEN AnsibleHost_loop_last_wins(resources, Tail(hosts), r_, msgs)
            ELSE LET inventory_hostname == host_res["attributes"]["inventory_hostname"]
                     entry == [name |-> inventory_hostname, r |-> p[1], i |-> p[2]]
                 IN IF inventory_hostname \in Names(r_)
                    THEN AnsibleHost_loop_last_wins(resources, Tail(hosts),
                             [k \in DOMAIN r_ |->
                                 IF r_[k].name = inventory_hostname THEN entry ELSE r_[k]],
                             Append(msgs, [at |-> "driver", host |-> inventory_hostname]))
                    ELSE AnsibleHost_loop_last_wins(resources, Tail(hosts),
                                                    Append(r_, entry), msgs)

\* AnsibleHost.loop_over_hosts
RECURSIVE AnsibleHost_loop_over_hosts(_, _, _, _)
AnsibleHost_loop_over_hosts(resources, hosts, r_, msgs) ==
    IF hosts = <<>> THEN [err |-> NoErr, ret |-> r_, msgs |-> msgs]
    ELSE LET p == Head(hosts)
             host_res == resources[p[1]]["instances"][p[2]]
         IN IF ~has_attributes(host_res)
            THEN AnsibleHost_loop_over_hosts(resources, Tail(hosts), r_, msgs)
            ELSE LET inventory_hostname == host_res["attributes"]["inventory_hostname"]
                 IN IF inventory_hostname \in Names(r_)
                    THEN AnsibleHost_loop_over_hosts(resources, Tail(hosts), r_,
                             Append(msgs, [at |-> "driver", host |-> inventory_hostname]))
                    ELSE AnsibleHost_loop_over_hosts(resources, Tail(hosts),
                             Append(r_, [name |-> inventory_hostname, r |-> p[1], i |-> p[2]]),
                             msgs)

\* LibvirtDomain.loop_over_hosts: raises at the first instance with attributes
LibvirtDomain_loop_over_hosts(resources, hosts) ==
    IF \E k \in DOMAIN hosts : has_attributes(resources[hosts[k][1]]["instances"][hosts[k][2]])
    THEN [err |-> "Exception:Work in progress", ret |-> <<>>, msgs |-> <<>>]
    ELSE [err |-> NoErr, ret |-> <<>>, msgs |-> <<>>]

\* Driver.get_hosts
Driver_get_hosts(cls, resources, data) ==
    LET instances == driver_instances(resources, data)
    IN IF cls = "AnsibleHost"
       THEN AnsibleHost_loop_over_hosts(resources, instances, <<>>, <<>>)
       ELSE LibvirtDomain_loop_over_hosts(resources, instances)

-----------------------------------------------------------------------------
(* Stacks *)

\* TerraformPlugin.default_stack_conf
default_stack_conf == [name |-> None, backend |-> "local"]

\* TerraformStack.default_config
TerraformStack_default_config == [name |-> None, driver |-> None, backend |-> "local"]

\* TerraformStack.get_config
TerraformStack_get_config(config) == Update(TerraformStack_default_config, config)

\* driver_name = stack_type or backend_type or None
driver_or(stack_type, backend_type) ==
    IF stack_type # None THEN stack_type ELSE backend_type

\* a tagging that writes the path into both injected variables
RECURSIVE tag_hosts_same_value(_, _, _, _, _, _, _, _)
tag_hosts_same_value(hosts, path, driver_name, b, url, c, r_, msgs) ==
    IF hosts = <<>> THEN [err |-> NoErr, cache |-> c, ret |-> r_, msgs |-> msgs]
    ELSE LET h == Head(hosts)
             host_def == c[url].v[h.r]["instances"][h.i]["attributes"]
             inventory_conf == [stack |-> path, driver |-> driver_name]
             tagged == Update(host_def, [terraform |-> inventory_conf])
             c1 == [c EXCEPT ![url].v[h.r]["instances"][h.i]["attributes"] = tagged]
         IN IF h.name \in Names(r_)
            THEN tag_hosts_same_value(Tail(hosts), path, driver_name, b, url, c, r_,
                                      Append(msgs, [at |-> "expand_conf", host |-> h.name]))
            ELSE IF "vars" \notin DOMAIN host_def
            THEN [err |-> "KeyError:vars", cache |-> c1, ret |-> r_, msgs |-> msgs]
            ELSE LET updated ==
                         [tagged EXCEPT !["vars"] =
                             Update(@, [terraform_stack |-> path,
                                        terraform_driver |-> path])]
                     c2 == [c EXCEPT ![url].v[h.r]["instances"][h.i]["attributes"] = updated]
                 IN tag_hosts_same_value(Tail(hosts), path, driver_name, b, url, c2,
                              Append(r_, [name |-> h.name,
                                          ref |-> [b |-> b, url |-> url, r |-> h.r, i |-> h.i]]),
                              msgs)

\* TerraformStack.expand_conf, lines 401-414: the hosts of one path are
\* tagged in place and added to ret unless the name is already there.
\* c is the cache of the backend, whose entry at url is the resource list
\* the hosts point into.
RECURSIVE tag_hosts(_, _, _, _, _, _, _, _)
tag_hosts(hosts, path, driver_name, b, url, c, r_, msgs) ==
    IF hosts = <<>> THEN [err |-> NoErr, cache |-> c, ret |-> r_, msgs |-> msgs]
    ELSE LET h == Head(hosts)
             host_def == c[url].v[h.r]["instances"][h.i]["attributes"]
             inventory_conf == [stack |-> path, driver |-> driver_name]
             tagged == Update(host_def, [terraform |-> inventory_conf])
             c1 == [c EXCEPT ![url].v[h.r]["instances"][h.i]["attributes"] = tagged]
         IN IF h.name \in Names(r_)
            THEN tag_hosts(Tail(hosts), path, driver_name, b, url, c, r_,
                           Append(msgs, [at |-> "expand_conf", host |-> h.name]))
            ELSE IF "vars" \notin DOMAIN host_def
            THEN [err |-> "KeyError:vars", cache |-> c1, ret |-> r_, msgs |-> msgs]
            ELSE LET updated ==
                         [tagged EXCEPT !["vars"] =
                             Update(@, [terraform_stack |-> path,
                                        terraform_driver |-> driver_name])]
                     c2 == [c EXCEPT ![url].v[h.r]["instances"][h.i]["attributes"] = updated]
                 IN tag_hosts(Tail(hosts), path, driver_name, b, url, c2,
                              Append(r_, [name |-> h.name,
                                          ref |-> [b |-> b, url |-> url, r |-> h.r, i |-> h.i]]),
                              msgs)

Outcome(err, res, c, r_, msgs, driver) ==
    [err |-> err, res |-> res, cache |-> c, ret |-> r_, msgs |-> msgs, driver |-> driver]

\* a loop body in which a driver that is not registered yields no host
\* instead of an exception
expand_conf_path_skip(stack, bk, c, path, resp, r_) ==
    LET res == TerraformConsul_get_resources(bk, c, path, resp)
        url == get_url(bk.config, bk.config["prefix"] \o path)
        stack_type == stack.config["driver"]
        driver_name == driver_or(stack_type, bk.config["driver"])
        cls == driver_map[driver_name]
        driver == Driver_new(cls, res.val)
        hosts == Driver_get_hosts(cls, res.val.v, driver.data)
        done == tag_hosts(hosts.ret, path, driver_name, bk.name, url, res.cache,
                          r_, hosts.msgs)
    IN IF res.err # NoErr THEN Outcome(res.err, res, res.cache, r_, <<>>, None)
       ELSE IF "driver" \notin DOMAIN bk.config
       THEN Outcome("KeyError:driver", res, res.cache, r_, <<>>, None)
       ELSE IF driver_name \notin DOMAIN driver_map
       THEN Outcome(NoErr, res, res.cache, r_, <<>>, driver_name)
       ELSE IF driver.err # NoErr
       THEN Outcome(driver.err, res, res.cache, r_, <<>>, driver_name)
       ELSE IF hosts.err # NoErr
       THEN Outcome(hosts.err, res, res.cache, r_, <<>>, driver_name)
       ELSE Outcome(done.err, res, done.cache, done.ret, done.msgs, driver_name)

\* TerraformStack.expand_conf: the body of the loop for one path
expand_conf_path(stack, bk, c, path, resp, r_) ==
    LET res == TerraformConsul_get_resources(bk, c, path, resp)
        url == get_url(bk.config, bk.config["prefix"] \o path)
        stack_type == stack.config["driver"]
        driver_name == driver_or(stack_type, bk.config["driver"])
        cls == driver_map[driver_name]
        driver == Driver_new(cls, res.val)
        hosts == Driver_get_hosts(cls, res.val.v, driver.data)
        done == tag_hosts(hosts.ret, path, driver_name, bk.name, url, res.cache,
                          r_, hosts.msgs)
    IN IF res.err # NoErr THEN Outcome(res.err, res, res.cache, r_, <<>>, None)
       ELSE IF "driver" \notin DOMAIN bk.config
       THEN Outcome("KeyError:driver", res, res.cache, r_, <<>>, None)
       ELSE IF driver_name \notin DOMAIN driver_map
       THEN Outcome("Exception:Could not find driver", res, res.cache, r_, <<>>, driver_name)
       ELSE IF driver.err # NoErr
       THEN Outcome(driver.err, res, res.cache, r_, <<>>, driver_name)
       ELSE IF hosts.err # NoErr
       THEN Outcome(hosts.err, res, res.cache, r_, <<>>, driver_name)
       ELSE Outcome(done.err, res, done.cache, done.ret, done.msgs, driver_name)

\* a merge in which the last record of a name replaces the kept one
RECURSIVE merge_resources_last_wins(_, _, _)
merge_resources_last_wins(resources, r_, msgs) ==
    IF resources = <<>> THEN [ret |-> r_, msgs |-> msgs]
    ELSE LET h == Head(resources)
         IN IF h.name \in Names(r_)
            THEN merge_resources_last_wins(Tail(resources),
                     [k \in DOMAIN r_ |-> IF r_[k].name = h.name THEN h ELSE r_[k]],
                     Append(msgs, [at |-> "expand_stacks", host |-> h.name]))
            ELSE merge_resources_last_wins(Tail(resources), Append(r_, h), msgs)

\* a merge that drops a duplicate without printing anything
RECURSIVE merge_resources_silent(_, _, _)
merge_resources_silent(resources, r_, msgs) ==
    IF resources = <<>> THEN [ret |-> r_, msgs |-> msgs]
    ELSE LET h == Head(resources)
         IN IF h.name \in Names(r_)
            THEN merge_resources_silent(Tail(resources), r_, msgs)
            ELSE merge_resources_silent(Tail(resources), Append(r_, h), msgs)

\* TerraformPlugin.expand_stacks, lines 161-165: first-wins merge of the
\* host map of one stack into ret
RECURSIVE merge_resources(_, _, _)
merge_resources(resources, r_, msgs) ==
    IF resources = <<>> THEN [ret |-> r_, msgs |-> msgs]
    ELSE LET h == Head(resources)
         IN IF h.name \in Names(r_)
            THEN merge_resources(Tail(resources), r_,
                                 Append(msgs, [at |-> "expand_stacks", host |-> h.name]))
            ELSE merge_resources(Tail(resources), Append(r_, h), msgs)

-----------------------------------------------------------------------------
(* Explored configurations *)

StackDefs ==
    { [name |-> re_db, backend |-> "consul1", driver |-> "ansible_host"],
      [name |-> re_all, backend |-> "consul1"],
      [name |-> re_b, backend |-> "consul1", driver |-> "ansible_host"],
      [name |-> re_all, backend |-> "consul2", driver |-> "ansible_host"],
      [name |-> re_app_all] }

BackendsConfs ==
    { [consul1 |-> [type |-> "consul"]],
      [consul1 |-> [type |-> "consul", driver |-> "ansible_host"],
       consul2 |-> [type |-> "consul", prefix |-> s_tf, driver |-> "libvirt_domain"]],
      [consul1 |-> [type |-> "consul", prefix |-> s_tf, driver |-> "libvirt_domain"],
       local |-> [driver |-> "ansible_host"]] }

SeqsUpTo(S, n) == UNION {[1..k -> S] : k \in 0..n}

Servers ==
    {[ids |-> ids, scheme |-> sch] :
        ids \in {s \in SeqsUpTo(Ids, MaxKeys) :
                    \A i, j \in DOMAIN s : i # j => s[i] # s[j]},
        sch \in Schemes}

\* section 8 of the specification, the end-to-end case
E2E_stacks == <<[name |-> re_app_all, backend |-> "consul1", driver |-> "ansible_host"]>>
E2E_backends == [consul1 |-> [type |-> "consul", prefix |-> CONSUL_PREFIX]]
E2E_server == [ids |-> <<s_app1, s_app2, s_db1>>, scheme |-> "distinct"]

\* configurations whose driver or backend type is not a known one, and two
\* stacks with patterns that have no identifier in common, in both orders
Cases ==
    LET no_default == [consul1 |-> [type |-> "consul", prefix |-> s_tf, driver |-> None]]
        valid == [name |-> re_db, backend |-> "consul1", driver |-> "ansible_host"]
        apps == [name |-> re_app_all, backend |-> "consul1", driver |-> "ansible_host"]
        unregistered(name) == [name |-> name, backend |-> "consul1", driver |-> "aws_instance"]
    IN { [stacks |-> <<valid, apps>>, backends |-> no_default],
         [stacks |-> <<apps, valid>>, backends |-> no_default],
         [stacks |-> <<valid, unregistered(re_all)>>, backends |-> no_default],
         [stacks |-> <<unregistered(re_all), valid>>, backends |-> no_default],
         [stacks |-> <<unregistered(re_b), valid>>, backends |-> no_default],
         [stacks |-> <<valid, [name |-> re_all, backend |-> "consul1"]>>,
          backends |-> no_default],
         [stacks |-> <<valid>>, backends |-> [consul1 |-> [type |-> "s3"]]] }

\* a server that also lists the key equal to the prefix, which Consul
\* stores for the folder itself, and a server whose two states name the
\* hosts 'a_b' and 'a-b'
Edges ==
    LET tf == [consul1 |-> [type |-> "consul", prefix |-> s_tf, driver |-> "ansible_host"]]
    IN { [stacks |-> <<[name |-> re_all, backend |-> "consul1"]>>, backends |-> tf,
          server |-> [ids |-> <<<<>>, s_db1>>, scheme |-> "distinct"]],
         [stacks |-> <<[name |-> re_db, backend |-> "consul1"]>>, backends |-> tf,
          server |-> [ids |-> <<<<>>, s_db1>>, scheme |-> "distinct"]],
         [stacks |-> <<[name |-> re_db, backend |-> "consul1"]>>, backends |-> tf,
          server |-> [ids |-> <<s_db1, s_db2>>, scheme |-> "underscore"]],
         [stacks |-> <<[name |-> re_db, backend |-> "consul1"]>>, backends |-> tf,
          server |-> [ids |-> <<s_db2, s_db1>>, scheme |-> "underscore"]] }

NoCall == [op |-> "none", n |-> 0]

\* the values of the variables a plugin does not use
NoOptions == [plugin |-> None]
NoInventory == [hosts |-> {}, groups |-> {}, children |-> {}, vars |-> <<>>]

TerraformIdle ==
    /\ stacks_conf = <<>>
    /\ backends_conf = <<>>
    /\ server = [ids |-> <<>>, scheme |-> None]
    /\ backends = <<>>
    /\ cache = <<>>
    /\ stacks = <<>>
    /\ si = 0
    /\ all_stacks = PyNone
    /\ paths = <<>>
    /\ pi = 0
    /\ sret = <<>>
    /\ ret = <<>>
    /\ out = <<>>
    /\ stdout = <<>>
    /\ requests = <<>>
    /\ last_call = NoCall
    /\ processed = <<>>

ExcludeIdle == group_dict = <<>> /\ host_dict = {}

JerakiaIdle == plugin_cache = <<>> /\ lookups = <<>> /\ hi = 0 /\ cache_enabled = FALSE

DotIdle == dot_dic = PyNone /\ dot_key = <<>> /\ ignore_missing_keys = FALSE /\ dot_ret = PyNone

IncludeIdle == path_i = 0 /\ tried = <<>>

\* InventoryModule.parse of the terraform plugin on a new inventory.  The
\* options of the group assignment (lines 630-632) are not read by
\* get_hosts; they are drawn where lines 636-670 first use them.
Init ==
    /\ \/ /\ stacks_conf \in SeqsUpTo(StackDefs, MaxStacks)
          /\ backends_conf \in BackendsConfs
          /\ server \in Servers
       \/ /\ stacks_conf = E2E_stacks
          /\ backends_conf = E2E_backends
          /\ server = E2E_server
       \/ /\ \E c \in Cases : stacks_conf = c.stacks /\ backends_conf = c.backends
          /\ server \in Servers
       \/ \E c \in Edges :
             stacks_conf = c.stacks /\ backends_conf = c.backends /\ server = c.server
    /\ pc = "parse"
    /\ backends = <<>>
    /\ cache = <<>>
    /\ stacks = <<>>
    /\ si = 0
    /\ all_stacks = PyNone
    /\ paths = <<>>
    /\ pi = 0
    /\ sret = <<>>
    /\ ret = <<>>
    /\ out = <<>>
    /\ error = NoErr
    /\ stdout = <<>>
    /\ requests = <<>>
    /\ last_call = NoCall
    /\ processed = <<>>
    /\ options = NoOptions
    /\ inventory = NoInventory
    /\ ExcludeIdle
    /\ JerakiaIdle
    /\ DotIdle
    /\ IncludeIdle

-----------------------------------------------------------------------------
(* TerraformPlugin.get_hosts, step by step *)

\* an exception leaves get_hosts: nothing catches it
Raise(e) ==
    /\ pc' = "failed"
    /\ error' = e

backend_kind(backend_def) ==
    IF "type" \in DOMAIN backend_def THEN backend_def["type"] ELSE "local"

\* TerraformPlugin.parse_backends
parse_backends(conf) ==
    IF \E n \in DOMAIN conf : backend_kind(conf[n]) \notin {"consul", "local"}
    THEN [err |-> "AnsibleError:Unsupported backend type", ret |-> <<>>]
    ELSE [err |-> NoErr,
          ret |-> [n \in DOMAIN conf |->
                     IF backend_kind(conf[n]) = "consul"
                     THEN TerraformConsul_new(n, Update(default_backend_conf, conf[n]))
                     ELSE [cls |-> "str", name |-> n]]]

\* a parse_stacks that leaves out the stacks whose backend is not defined
parse_stacks_skip(conf, bks) ==
    LET new_def(idx) == Update(Update(default_stack_conf, conf[idx]), [index |-> idx - 1])
        known == SelectSeq([idx \in DOMAIN conf |-> idx],
                           LAMBDA idx : new_def(idx)["backend"] \in DOMAIN bks)
    IN [err |-> NoErr,
        ret |-> [j \in DOMAIN known |->
                   [config |-> TerraformStack_get_config(new_def(known[j])),
                    backend |-> new_def(known[j])["backend"]]]]

\* TerraformPlugin.parse_stacks with TerraformStack.__init__
parse_stacks(conf, bks) ==
    LET new_def(idx) == Update(Update(default_stack_conf, conf[idx]), [index |-> idx - 1])
    IN IF \E idx \in DOMAIN conf : new_def(idx)["backend"] \notin DOMAIN bks
       THEN [err |-> "KeyError:backend", ret |-> <<>>]
       ELSE [err |-> NoErr,
             ret |-> [idx \in DOMAIN conf |->
                        [config |-> TerraformStack_get_config(new_def(idx)),
                         backend |-> new_def(idx)["backend"]]]]

\* TerraformPlugin.parse_config and the start of expand_stacks
ParseConfig ==
    /\ pc = "parse"
    /\ LET bks == parse_backends(backends_conf)
           sts == parse_stacks(stacks_conf, bks.ret)
       IN IF bks.err # NoErr
          THEN /\ Raise(bks.err)
               /\ UNCHANGED <<backends, cache, stacks, si, requests>>
          ELSE /\ backends' = bks.ret
               /\ cache' = [n \in DOMAIN bks.ret |-> <<>>]
               /\ requests' = [n \in DOMAIN bks.ret |-> <<>>]
               /\ IF sts.err # NoErr
                  THEN /\ Raise(sts.err)
                       /\ UNCHANGED <<stacks, si>>
                  ELSE /\ stacks' = sts.ret
                       /\ si' = 1
                       /\ pc' = "stack"
                       /\ UNCHANGED error
    /\ UNCHANGED <<stacks_conf, backends_conf, server, all_stacks, paths, pi, sret,
                   ret, out, stdout, last_call, processed>>
    /\ UNCHANGED <<options, inventory, exclude_vars, jerakia_vars, include_vars, dot_vars>>

\* TerraformStack._expand_paths with the answer resp of the server
expand_paths(resp) ==
    LET stack == stacks[si]
        bk == backends[stack.backend]
        r == TerraformConsul_get_stacks(bk, cache[bk.name], resp)
        url == get_url(bk.config, bk.config["prefix"])
    IN /\ cache' = [cache EXCEPT ![bk.name] = r.cache]
       /\ requests' = [requests EXCEPT ![bk.name] = @ \o r.req]
       /\ last_call' = [op |-> "get_stacks", n |-> last_call.n + 1,
                        b |-> bk.name, url |-> url,
                        path |-> <<>>, resp |-> resp, req |-> r.req # <<>>,
                        err |-> r.err, val |-> r.val]
       /\ IF r.err # NoErr
          THEN /\ Raise(r.err)
               /\ UNCHANGED <<all_stacks, paths, pi, sret>>
          ELSE IF r.val.t # "list" \/ r.val.of # "str"
          THEN /\ Raise("TypeError")
               /\ all_stacks' = r.val
               /\ UNCHANGED <<paths, pi, sret>>
          ELSE /\ all_stacks' = r.val
               /\ paths' = filter_match(stack.config["name"], r.val.v)
               /\ pi' = 1
               /\ sret' = <<>>
               /\ pc' = "path"
               /\ UNCHANGED error

Cached(bk, key) == get_url(bk.config, key) \in DOMAIN cache[bk.name]

\* expand_stacks line 158 -> expand_conf line 382
ExpandPaths ==
    /\ pc = "stack"
    /\ si <= Len(stacks)
    /\ LET bk == backends[stacks[si].backend]
       IN IF bk.cls = "str"
          THEN /\ Raise("AttributeError")
               /\ UNCHANGED <<cache, requests, last_call, all_stacks, paths, pi, sret>>
          ELSE IF Cached(bk, bk.config["prefix"])
          THEN expand_paths(Refused)
          ELSE \E resp \in Responses(server, bk.config["prefix"], TRUE) :
                  expand_paths(resp)
    /\ UNCHANGED <<stacks_conf, backends_conf, server, backends, stacks, si, ret,
                   out, stdout, processed>>
    /\ UNCHANGED <<options, inventory, exclude_vars, jerakia_vars, include_vars, dot_vars>>

\* one iteration of the loop of expand_conf with the answer resp
fetch_extract(resp) ==
    LET stack == stacks[si]
        bk == backends[stack.backend]
        path == paths[pi]
        o == expand_conf_path(stack, bk, cache[bk.name], path, resp, sret)
        url == get_url(bk.config, bk.config["prefix"] \o path)
    IN /\ cache' = [cache EXCEPT ![bk.name] = o.cache]
       /\ requests' = [requests EXCEPT ![bk.name] = @ \o o.res.req]
       /\ last_call' = [op |-> "get_resources", n |-> last_call.n + 1,
                        b |-> bk.name, url |-> url,
                        path |-> path, resp |-> resp, req |-> o.res.req # <<>>,
                        err |-> o.res.err, val |-> o.res.val]
       /\ stdout' = stdout \o o.msgs
       /\ sret' = o.ret
       /\ IF o.err # NoErr
          THEN /\ Raise(o.err)
               /\ UNCHANGED <<pi, processed>>
          ELSE /\ pi' = pi + 1
               /\ processed' = Append(processed,
                                  [si |-> si, b |-> bk.name, url |-> url,
                                   path |-> path, driver |-> o.driver])
               /\ UNCHANGED <<pc, error>>

\* expand_conf lines 385-414
FetchExtract ==
    /\ pc = "path"
    /\ pi <= Len(paths)
    /\ LET bk == backends[stacks[si].backend]
           key == bk.config["prefix"] \o paths[pi]
       IN IF Cached(bk, key)
          THEN fetch_extract(Refused)
          ELSE \E resp \in Responses(server, key, FALSE) : fetch_extract(resp)
    /\ UNCHANGED <<stacks_conf, backends_conf, server, backends, stacks, si,
                   all_stacks, paths, ret, out>>
    /\ UNCHANGED <<options, inventory, exclude_vars, jerakia_vars, include_vars, dot_vars>>

\* expand_conf returns; expand_stacks lines 159-165
MergeStack ==
    /\ pc = "path"
    /\ pi > Len(paths)
    /\ LET m == merge_resources(sret, ret, <<>>)
       IN /\ ret' = m.ret
          /\ stdout' = stdout \o m.msgs
    /\ si' = si + 1
    /\ pc' = "stack"
    /\ UNCHANGED <<stacks_conf, backends_conf, server, backends, cache, stacks,
                   all_stacks, paths, pi, sret, out, error, requests, last_call,
                   processed>>
    /\ UNCHANGED <<options, inventory, exclude_vars, jerakia_vars, include_vars, dot_vars>>

\* expand_stacks line 166, get_hosts lines 148-149
Return ==
    /\ pc = "stack"
    /\ si > Len(stacks)
    /\ out' = ret
    /\ pc' = "done"
    /\ UNCHANGED <<stacks_conf, backends_conf, server, backends, cache, stacks, si,
                   all_stacks, paths, pi, sret, ret, error, stdout, requests,
                   last_call, processed>>
    /\ UNCHANGED <<options, inventory, exclude_vars, jerakia_vars, include_vars, dot_vars>>

-----------------------------------------------------------------------------
(* The Ansible inventory (InventoryData): the names of its hosts and       *)
(* groups, the child relation as (group, kind, child) and the variables of *)
(* each host.                                                              *)

add_group(inv, group) == [inv EXCEPT !.groups = @ \cup {group}]

add_host(inv, host) == [inv EXCEPT !.hosts = @ \cup {host}]

\* add_child looks the child up among the groups first, then the hosts
add_child(inv, group, child) ==
    IF child \in inv.groups
    THEN [inv EXCEPT !.children = @ \cup {<<group, "group", child>>}]
    ELSE [inv EXCEPT !.children = @ \cup {<<group, "host", child>>}]

host_vars(inv, host) == IF host \in DOMAIN inv.vars THEN inv.vars[host] ELSE <<>>

\* set_variable for every item of a dict
set_variables(inv, host, d) ==
    [inv EXCEPT !.vars = Update(@, host :> Update(host_vars(inv, host), d))]

\* a replace whose result is thrown away
str_replace_dropped(str, old, new) == str

\* str.replace(old, new) for one-character old and new
str_replace(str, old, new) == [i \in DOMAIN str |-> IF str[i] = old THEN new ELSE str[i]]

\* the attributes dict a host entry points to, in cache store c
Deref(c, ref) == c[ref.b][ref.url].v[ref.r]["instances"][ref.i]["attributes"]

\* the options of the terraform plugin used by the group assignment
Options ==
    {[inventory_group |-> g, inventory_sub_groups |-> sg, strict |-> st] :
        g \in {<<>>, s_terraform, s_web}, sg \in BOOLEAN, st \in BOOLEAN}

\* InventoryModule.parse lines 665-670: the custom groups of a host
RECURSIVE add_custom_groups(_, _, _)
add_custom_groups(inv, groups, host_name) ==
    IF groups = <<>> THEN inv
    ELSE IF Head(groups) = <<>>
    THEN add_custom_groups(inv, Tail(groups), host_name)
    ELSE add_custom_groups(add_child(add_group(inv, Head(groups)), Head(groups), host_name),
                           Tail(groups), host_name)

\* InventoryModule.parse lines 640-670: the loop over terraform_hosts; c is
\* the store the host records point into
RECURSIVE add_terraform_hosts(_, _, _, _)
add_terraform_hosts(inv, terraform_hosts, c, opts) ==
    IF terraform_hosts = <<>> THEN [err |-> NoErr, inv |-> inv]
    ELSE LET host_def == Deref(c, Head(terraform_hosts).ref)
             host_name == IF opts.strict
                          THEN str_replace(Head(terraform_hosts).name, "_", "-")
                          ELSE Head(terraform_hosts).name
             hvars == IF "vars" \in DOMAIN host_def THEN host_def["vars"] ELSE <<>>
             added == set_variables(add_host(inv, host_name), host_name, hvars)
             subgroup == str_replace(str_replace(host_def["terraform"]["stack"], "/", "_"),
                                     "-", "_")
             grouped ==
                 IF opts.inventory_group = <<>> THEN added
                 ELSE IF opts.inventory_sub_groups
                 THEN add_child(add_child(add_group(added, subgroup), subgroup, host_name),
                                opts.inventory_group, subgroup)
                 ELSE add_child(added, opts.inventory_group, host_name)
         IN IF "groups" \notin DOMAIN host_def
            THEN [err |-> "KeyError:groups", inv |-> grouped]
            ELSE add_terraform_hosts(add_custom_groups(grouped, host_def["groups"], host_name),
                                     Tail(terraform_hosts), c, opts)

\* InventoryModule.parse lines 636-697 with the options opts; compose,
\* groups and keyed_groups have their default, empty, value
InventoryModule_parse ==
    /\ pc = "done"
    /\ \E opts \in Options :
          LET top == IF opts.inventory_group # <<>>
                     THEN add_group(inventory, opts.inventory_group)
                     ELSE inventory
              r == add_terraform_hosts(top, out, cache, opts)
          IN /\ options' = opts
             /\ inventory' = r.inv
             /\ IF r.err # NoErr THEN Raise(r.err)
                ELSE pc' = "parsed" /\ UNCHANGED error
    /\ UNCHANGED <<tf_vars, exclude_vars, jerakia_vars, include_vars, dot_vars>>

Next ==
    \/ ParseConfig
    \/ ExpandPaths
    \/ FetchExtract
    \/ MergeStack
    \/ Return
    \/ InventoryModule_parse

Spec == Init /\ [][Next]_vars

-----------------------------------------------------------------------------
(* Vocabulary of the properties *)

\* the instances of ansible_host resources that carry attributes, in
\* resource order, then instance order
ValidInstances(resources) ==
    Concat([r \in DOMAIN resources |->
              IF /\ "type" \in DOMAIN resources[r]
                 /\ resources[r]["type"] = "ansible_host"
                 /\ "instances" \in DOMAIN resources[r]
              THEN SelectSeq([i \in DOMAIN resources[r]["instances"] |-> <<r, i>>],
                             LAMBDA q : "attributes" \in
                                          DOMAIN resources[r]["instances"][q[2]])
              ELSE <<>>])

\* every host record produced so far, in processing order: stack
\* declaration order, then matched-stack order, then encounter order
Candidates ==
    Concat([k \in DOMAIN processed |->
              LET e == processed[k]
                  resources == cache[e.b][e.url].v
                  vi == ValidInstances(resources)
              IN IF e.driver = "ansible_host"
                 THEN [j \in DOMAIN vi |->
                         [name |-> resources[vi[j][1]]["instances"][vi[j][2]]
                                      ["attributes"]["inventory_hostname"],
                          ref |-> [b |-> e.b, url |-> e.url, r |-> vi[j][1], i |-> vi[j][2]],
                          stack |-> e.path, driver |-> e.driver]]
                 ELSE <<>>])

FirstOf(cands, name) ==
    cands[CHOOSE k \in DOMAIN cands :
             cands[k].name = name /\ \A j \in 1..(k - 1) : cands[j].name # name]

\* the pattern matches the whole of s (membership in its language)
RECURSIVE InLanguage(_, _)
InLanguage(p, s) ==
    IF p = <<>> THEN s = <<>>
    ELSE IF Len(p) >= 2 /\ p[2] = "*"
         THEN \E k \in 0..Len(s) :
                 /\ \A j \in 1..k : p[1] = "." \/ p[1] = s[j]
                 /\ InLanguage(SubSeq(p, 3, Len(p)), SubSeq(s, k + 1, Len(s)))
         ELSE /\ s # <<>>
              /\ (p[1] = "." \/ p[1] = s[1])
              /\ InLanguage(Tail(p), Tail(s))

\* some prefix of s is in the language of the pattern
MatchesAtStart(p, s) == \E k \in 0..Len(s) : InLanguage(p, SubSeq(s, 1, k))

-----------------------------------------------------------------------------
\* C1: when get_hosts has returned, every hostname is in the result once,
\* the record kept under a name is the first one produced with that name in
\* processing order (stack declaration order, matched-stack order, encounter
\* order) and carries that stack's tag; and no step replaces or alters a
\* record already kept in ret.
C1_FirstKept ==
    pc = "done" =>
        /\ \A i, j \in DOMAIN out : i # j => out[i].name # out[j].name
        /\ Names(out) = {Candidates[k].name : k \in DOMAIN Candidates}
        /\ \A i \in DOMAIN out :
              LET f == FirstOf(Candidates, out[i].name)
              IN /\ out[i].ref = f.ref
                 /\ Deref(cache, out[i].ref)["terraform"] =
                        [stack |-> f.stack, driver |-> f.driver]
                 /\ Deref(cache, out[i].ref)["vars"]["terraform_stack"] = f.stack

C1_KeptUnaltered ==
    \A i \in DOMAIN ret :
        /\ i \in DOMAIN ret'
        /\ ret'[i] = ret[i]
        /\ Deref(cache', ret[i].ref) = Deref(cache, ret[i].ref)

C1_FirstWins == [] C1_FirstKept /\ [][C1_KeptUnaltered]_vars

\* a run in which a later stack and a later path both lost a duplicate
C1_Witness ==
    /\ pc = "done"
    /\ \E k \in DOMAIN stdout : stdout[k].at = "expand_stacks"
    /\ \E k \in DOMAIN stdout : stdout[k].at = "expand_conf"
    /\ Len(out) >= 2

-----------------------------------------------------------------------------
s_prod_web == <<"p", "r", "o", "d", "-", "w", "e", "b">>
s_prod_db == <<"p", "r", "o", "d", "-", "d", "b">>
s_staging_web == <<"s", "t", "a", "g", "i", "n", "g", "-", "w", "e", "b">>
re_prod == <<"p", "r", "o", "d", "-">>
re_web == <<"w", "e", "b">>

\* C2: the paths of a stack are exactly the identifiers of the backend's
\* listing of which some prefix is in the language of the name pattern, all
\* of them and in listing order; 'prod-' over prod-web, prod-db, staging-web
\* gives prod-web, prod-db and 'web' gives nothing.
C2_ExpandPaths ==
    /\ (pc = "path" =>
          paths = SelectSeq(all_stacks.v,
                            LAMBDA s : MatchesAtStart(stacks[si].config["name"], s)))
    /\ filter_match(re_prod, <<s_prod_web, s_prod_db, s_staging_web>>)
          = <<s_prod_web, s_prod_db>>
    /\ filter_match(re_web, <<s_prod_web, s_prod_db, s_staging_web>>) = <<>>

\* a listing of which the pattern keeps a part, and one it keeps nothing of
\* although the pattern occurs inside an identifier
C2_Witness ==
    /\ pc = "path"
    /\ si = 2
    /\ stacks[1].config["name"] = re_b
    /\ stacks[2].config["name"] = re_db
    /\ stacks[1].backend = stacks[2].backend
    /\ processed = <<>>
    /\ paths # <<>>
    /\ Len(paths) < Len(all_stacks.v)
    /\ \E k \in DOMAIN all_stacks.v : re_search(re_b, all_stacks.v[k])

\* C3: get_stacks returns, for every listed key that is the prefix followed
\* by an identifier, exactly that identifier, in listing order.
C3_StripsPrefix ==
    (last_call.op = "get_stacks" /\ last_call.req /\ last_call.err = NoErr) =>
        LET prefix == backends[last_call.b].config["prefix"]
            keys == last_call.resp.body.v
        IN /\ Len(last_call.val.v) = Len(keys)
           /\ \A k \in DOMAIN keys :
                 startswith(keys[k], prefix) => prefix \o last_call.val.v[k] = keys[k]

\* C4: the effective driver of a stack is its driver override when set,
\* else the default driver of its backend; a driver error arises only when
\* neither names a registered driver.
EffectiveDriver(stack) ==
    IF stack.config["driver"] # None THEN stack.config["driver"]
    ELSE IF "driver" \in DOMAIN backends[stack.backend].config
         THEN backends[stack.backend].config["driver"]
         ELSE None

C4_EffectiveDriver ==
    /\ \A k \in DOMAIN processed :
          processed[k].driver = EffectiveDriver(stacks[processed[k].si])
    /\ (pc = "failed" /\ error \in {"KeyError:driver", "Exception:Could not find driver"})
          => EffectiveDriver(stacks[si]) \notin DOMAIN driver_map

\* C5: in the end-to-end case of section 8, with a server that answers
\* every request, get_hosts returns two hosts, tagged app-1 and app-2, and
\* prints no duplicate message.
IsE2E ==
    /\ stacks_conf = E2E_stacks
    /\ backends_conf = E2E_backends
    /\ server = E2E_server

ServerAnswered ==
    last_call.op # "none" /\ last_call.req =>
        last_call.resp.conn /\ last_call.resp.status = 200 /\ last_call.resp.body.t = "list"

C5_EndToEnd ==
    (IsE2E /\ pc \in {"done", "failed"} /\ ServerAnswered) =>
        /\ pc = "done"
        /\ Len(out) = 2
        /\ {Deref(cache, out[i].ref)["vars"]["terraform_stack"] : i \in DOMAIN out}
              = {s_app1, s_app2}
        /\ stdout = <<>>

-----------------------------------------------------------------------------
(* Failures of the backend, as the server's answer shows them *)

Requested == last_call.op # "none" /\ last_call.req

TransportFailure(resp) == ~resp.conn \/ resp.status # 200

\* the first entry of a payload that has a Value, if any
HasValued(resp) ==
    /\ resp.conn
    /\ resp.body.t = "list"
    /\ \E k \in DOMAIN resp.body.v : "Value" \in DOMAIN resp.body.v[k]

FirstValued(resp) ==
    resp.body.v[CHOOSE k \in DOMAIN resp.body.v :
                   /\ "Value" \in DOMAIN resp.body.v[k]
                   /\ \A j \in 1..(k - 1) : "Value" \notin DOMAIN resp.body.v[j]]["Value"]

Undecodable(value) == value.enc # "base64" \/ value.data.enc # "json"

ParseFailure(call) ==
    /\ ~TransportFailure(call.resp)
    /\ \/ call.resp.body.t # "list"
       \/ /\ call.op = "get_resources"
          /\ HasValued(call.resp)
          /\ Undecodable(FirstValued(call.resp))

BackendFailure == Requested /\ (TransportFailure(last_call.resp) \/ ParseFailure(last_call))

\* C6 (as the code has it): a transport error or a parse error raised while
\* listing or fetching a stack leaves get_hosts as an exception: the run
\* stops there, nothing is returned and no later stack is processed.
C6_Aborts ==
    BackendFailure =>
        /\ pc = "failed"
        /\ error # NoErr
        /\ error = last_call.err
        /\ out = <<>>
        /\ ~ ENABLED Next

\* a failure that loses the hosts already collected from an earlier stack
C6_Witness ==
    /\ BackendFailure
    /\ pc = "failed"
    /\ ret # <<>>
    /\ si = 2

\* C6 as claimed: a failing stack does not abort the run.
C6_Original == BackendFailure => pc # "failed"

\* C7: the outcome of get_resources on a payload is its outcome on the same
\* payload without the entries that have no Value.
StripValueless(resp) ==
    IF resp.conn /\ resp.body.t = "list"
    THEN [resp EXCEPT !.body.v = SelectSeq(@, LAMBDA e : "Value" \in DOMAIN e)]
    ELSE resp

C7_SkipsValueless ==
    (last_call.op = "get_resources" /\ last_call.req) =>
        LET again == TerraformConsul_get_resources(backends[last_call.b], <<>>,
                         last_call.path, StripValueless(last_call.resp))
        IN /\ again.err = last_call.err
           /\ again.val = last_call.val

\* a payload whose first entry has no Value and whose second has one
C7_Witness ==
    /\ last_call.op = "get_resources"
    /\ last_call.req
    /\ HasValued(last_call.resp)
    /\ "Value" \notin DOMAIN last_call.resp.body.v[1]
    /\ last_call.resp.status = 200
    /\ last_call.err = NoErr
    /\ last_call.val.t = "list"

\* C8: a call ends in a transport error exactly when the connection fails
\* or the status is not 2xx, and get_resources ends in an error when the
\* Value is undecodable or the state document has no resources key.
C8_NoSwallow ==
    Requested =>
        LET resp == last_call.resp
            transport == last_call.err \in {"AnsibleError:fetch", "AnsibleError:status"}
        IN /\ (~resp.conn \/ resp.status \notin 200..299) => transport
           /\ (resp.conn /\ resp.status \in 200..299) => ~transport
           /\ (/\ last_call.op = "get_resources"
               /\ ~TransportFailure(resp)
               /\ HasValued(resp)
               /\ (Undecodable(FirstValued(resp))
                     \/ "resources" \notin DOMAIN FirstValued(resp).data.data))
                 => last_call.err # NoErr

\* C9: a url that has a cache entry is not requested again, a call served
\* from the cache returns the entry, and an entry is never removed,
\* rewritten or changed in content.
C9_Step ==
    \A b \in DOMAIN cache : \A u \in DOMAIN cache[b] :
        /\ u \in DOMAIN cache'[b]
        /\ cache'[b][u] = cache[b][u]
        /\ Len(requests'[b]) > Len(requests[b]) => requests'[b][Len(requests'[b])] # u
        /\ (last_call'.n # last_call.n /\ last_call'.b = b /\ last_call'.url = u)
              => last_call'.val = cache[b][u]

C9_WriteOnce == [][C9_Step]_vars

\* C10 (as the code has it): when get_hosts has returned, every host record
\* produced is either the one kept under its name or was reported by
\* exactly one printed message; the kept one is the first in processing
\* order.
NameCount(seq, h) == Cardinality({k \in DOMAIN seq : seq[k].name = h})

C10_DroppedReported ==
    pc = "done" =>
        /\ \A k \in DOMAIN Candidates :
              LET h == Candidates[k].name
              IN /\ h \in Names(out)
                 /\ NameCount(Candidates, h)
                       = 1 + Cardinality({m \in DOMAIN stdout : stdout[m].host = h})
        /\ \A m \in DOMAIN stdout : stdout[m].host \in Names(out)
        /\ \A i \in DOMAIN out :
              Deref(cache, out[i].ref)["terraform"]["stack"]
                  = FirstOf(Candidates, out[i].name).stack

\* two stacks both produced node1: one message, one record kept
C10_Witness ==
    /\ pc = "done"
    /\ Len(stdout) = 1
    /\ stdout[1].host = node1
    /\ \E j, k \in DOMAIN Candidates :
          /\ j < k
          /\ Candidates[j].name = node1
          /\ Candidates[k].name = node1
          /\ Candidates[j].stack # Candidates[k].stack

\* C10 as claimed: the value get_hosts returns accounts for every dropped
\* record.
C10_Original ==
    pc = "done" =>
        \A k \in DOMAIN Candidates :
            \E i \in DOMAIN out : out[i].ref = Candidates[k].ref

-----------------------------------------------------------------------------
\* C11: when some stack definition names a backend that `backends` does not
\* define ('local' when the definition names none), get_hosts fails while
\* parsing the configuration: it ends in an error, no request has been sent
\* to any backend and nothing is returned.
BackendRef(stack_def) ==
    IF "backend" \in DOMAIN stack_def THEN stack_def["backend"] ELSE "local"

UnknownBackend ==
    \E k \in DOMAIN stacks_conf : BackendRef(stacks_conf[k]) \notin DOMAIN backends_conf

C11_FailsAtParse ==
    (UnknownBackend /\ pc # "parse") =>
        /\ pc = "failed"
        /\ error \in {"KeyError:backend", "AnsibleError:Unsupported backend type"}
        /\ stacks = <<>>
        /\ last_call = NoCall
        /\ \A b \in DOMAIN requests : requests[b] = <<>>
        /\ out = <<>>
        /\ ~ ENABLED Next

\* the second stack names no backend and 'local' is not defined, while the
\* first stack is bound to a Consul backend that lists stacks
C11_Witness ==
    /\ pc = "failed"
    /\ error = "KeyError:backend"
    /\ Len(stacks_conf) = 2
    /\ BackendRef(stacks_conf[1]) \in DOMAIN backends_conf
    /\ "backend" \notin DOMAIN stacks_conf[2]
    /\ server.ids # <<>>

-----------------------------------------------------------------------------
\* C12 (as the code has it): a driver name that is not registered (given by
\* the stack, or by the backend when the stack gives none) raises
\* "Could not find driver" at the first path of that stack, after the
\* resources of the path were fetched; the exception leaves get_hosts, no
\* host is returned (those of the stacks before it included) and no later
\* stack is processed.  No path is ever extracted under such a name.
ResolvedName(stack) ==
    IF stack.config["driver"] # None THEN stack.config["driver"]
    ELSE backends[stack.backend].config["driver"]

DriverError == error = "Exception:Could not find driver"

C12_DriverAborts ==
    /\ \A k \in DOMAIN processed : processed[k].driver \in DOMAIN driver_map
    /\ DriverError =>
          /\ pc = "failed"
          /\ ResolvedName(stacks[si]) \notin DOMAIN driver_map
          /\ last_call.op = "get_resources"
          /\ last_call.err = NoErr
          /\ last_call.path = paths[pi]
          /\ out = <<>>
          /\ ~ ENABLED Next

\* the first stack has a valid driver and produced hosts, the second one
\* names a driver that is not registered
C12_Witness ==
    /\ DriverError
    /\ si = 2
    /\ ret # <<>>
    /\ stacks[1].config["driver"] = "ansible_host"

\* C12 as claimed: the hosts of the stacks with a valid driver are still
\* returned.
C12_Original == (DriverError /\ ret # <<>>) => out = ret

-----------------------------------------------------------------------------
\* C13 (as the code has it): after parse with inventory_group set, with
\* sub groups every host is a child of the subgroup named by its origin
\* stack with '/' and '-' replaced by '_', that subgroup is a child of the
\* top-level group, and the host is a direct child of the top-level group
\* only when one of its own custom groups has that name; without sub groups
\* every host is a direct child of the top-level group; in both cases the
\* host is a child of every non-empty custom group of its record.
Normalized(path) ==
    [i \in DOMAIN path |-> IF path[i] \in {"/", "-"} THEN "_" ELSE path[i]]

InventoryName(name) ==
    IF options.strict
    THEN [i \in DOMAIN name |-> IF name[i] = "_" THEN "-" ELSE name[i]]
    ELSE name

Child(group, kind, child) == <<group, kind, child>> \in inventory.children

Grouped == pc = "parsed" /\ options.inventory_group # <<>>

CustomGroups(i) == Range(Deref(cache, out[i].ref)["groups"]) \ {<<>>}

C13_Groups ==
    Grouped =>
        \A i \in DOMAIN out :
            LET h == InventoryName(out[i].name)
                top == options.inventory_group
                sub == Normalized(FirstOf(Candidates, out[i].name).stack)
            IN /\ h \in inventory.hosts
               /\ top \in inventory.groups
               /\ options.inventory_sub_groups =>
                     /\ sub \in inventory.groups
                     /\ Child(sub, "host", h)
                     /\ Child(top, "group", sub)
                     /\ Child(top, "host", h) <=> top \in CustomGroups(i)
               /\ ~ options.inventory_sub_groups => Child(top, "host", h)
               /\ \A g \in CustomGroups(i) :
                     g \in inventory.groups /\ Child(g, "host", h)

\* two hosts of two stacks under sub groups
C13_Witness ==
    /\ Grouped
    /\ options.inventory_sub_groups
    /\ options.inventory_group = s_terraform
    /\ \E i, j \in DOMAIN out :
          Deref(cache, out[i].ref)["terraform"]["stack"]
              # Deref(cache, out[j].ref)["terraform"]["stack"]
    /\ \E i \in DOMAIN out : CustomGroups(i) # {}

\* C13 as claimed: with sub groups no host is a direct child of the
\* top-level group.
C13_Original ==
    (Grouped /\ options.inventory_sub_groups) =>
        \A i \in DOMAIN out :
            ~ Child(options.inventory_group, "host", InventoryName(out[i].name))

-----------------------------------------------------------------------------
\* C14: the ansible_host driver, fed a resource list whose ansible_host
\* resources hold N instances with attributes and N distinct hostnames,
\* returns exactly N host records, the k-th one keyed by the hostname of
\* the k-th such instance and pointing to it; after the tagging of
\* expand_conf all N names are in the host map of the stack and every
\* record of that map carries the name of the driver, in its origin
\* metadata and in its variables.
Extracted == last_call.op = "get_resources" /\ pc = "path" /\ processed # <<>>

LastDriver == EffectiveDriver(stacks[processed[Len(processed)].si])

Hostname(resources, p) ==
    resources[p[1]]["instances"][p[2]]["attributes"]["inventory_hostname"]

DistinctHostnames(resources) ==
    LET vi == ValidInstances(resources)
    IN \A j, k \in DOMAIN vi :
          j # k => Hostname(resources, vi[j]) # Hostname(resources, vi[k])

-----------------------------------------------------------------------------
(* The hosts of a configuration as a set, whatever the order of the stack  *)
(* definitions and of the listing: for every stack definition and every    *)
(* listed identifier its pattern matches, the valid instances of the       *)
(* state document stored under that identifier, tagged with it.            *)

BackendPrefix(b) ==
    IF "prefix" \in DOMAIN backends_conf[b] THEN backends_conf[b]["prefix"]
    ELSE CONSUL_PREFIX

\* the identifiers the backend lists, as get_stacks names them
ListedIds(b) ==
    LET under == SelectSeq(ServerKeys(server),
                           LAMBDA k : startswith(k, BackendPrefix(b)))
    IN {lstrip(under[i], BackendPrefix(b)) : i \in DOMAIN under}

MatchedIds(k) ==
    {id \in ListedIds(BackendRef(stacks_conf[k])) :
        MatchesAtStart(stacks_conf[k]["name"], id)}

\* the resources of the state document stored for identifier id; none
\* when the server stores nothing under it
StoredResources(b, id) ==
    LET stored == BackendPrefix(b) \o id
        found == {p \in (DOMAIN Namespaces) \X (DOMAIN server.ids) :
                     Namespaces[p[1]] \o server.ids[p[2]] = stored}
        p == CHOOSE p \in found : TRUE
        entries == SelectSeq(Payload(server.scheme, server.ids[p[2]], stored),
                             LAMBDA e : "Value" \in DOMAIN e)
    IN IF found = {} THEN <<>> ELSE Head(entries)["Value"].data.data["resources"]

ConfiguredDriver(k) ==
    IF "driver" \in DOMAIN stacks_conf[k] THEN stacks_conf[k]["driver"]
    ELSE backends_conf[BackendRef(stacks_conf[k])]["driver"]

\* (stack definition, identifier, instance) of every host record to expect
Produced ==
    LET of_path(k, id) ==
            {<<k, id, q>> :
                q \in Range(ValidInstances(StoredResources(BackendRef(stacks_conf[k]), id)))}
        of_stack(k) == UNION {of_path(k, id) : id \in MatchedIds(k)}
    IN UNION {IF ConfiguredDriver(k) = "ansible_host" THEN of_stack(k) ELSE {} :
                 k \in DOMAIN stacks_conf}

ProducedAttributes(t) ==
    StoredResources(BackendRef(stacks_conf[t[1]]), t[2])
        [t[3][1]]["instances"][t[3][2]]["attributes"]

ProducedRecord(t) ==
    LET attributes == ProducedAttributes(t)
        tag == [stack |-> t[2], driver |-> ConfiguredDriver(t[1])]
    IN [name |-> attributes["inventory_hostname"],
        rec |-> [Update(attributes, [terraform |-> tag])
                    EXCEPT !["vars"] = Update(@, [terraform_stack |-> tag.stack,
                                                  terraform_driver |-> tag.driver])]]

NoCollision ==
    \A t, u \in Produced :
        t # u => ProducedAttributes(t)["inventory_hostname"]
                    # ProducedAttributes(u)["inventory_hostname"]

\* C15: when the stacks of a configuration produce pairwise distinct
\* hostnames, what get_hosts returns (the hostnames and the record under
\* each) is the set of host records of the configuration, which does not
\* depend on the order of the stack definitions nor on the order of the
\* backend's listing.
C15_OrderFree ==
    (pc = "done" /\ NoCollision) =>
        /\ {[name |-> out[i].name, rec |-> Deref(cache, out[i].ref)] : i \in DOMAIN out}
              = {ProducedRecord(t) : t \in Produced}
        /\ Cardinality(Names(out)) = Len(out)

\* two stacks with disjoint patterns, the later definition matching the
\* identifier listed first, that both gave a host
C15_Witness ==
    /\ pc = "done"
    /\ NoCollision
    /\ Len(out) = 2
    /\ Len(stacks_conf) = 2
    /\ stacks_conf[1]["name"] = re_app_all
    /\ stacks_conf[2]["name"] = re_db
    /\ server.ids = <<s_db1, s_app1>>

-----------------------------------------------------------------------------
\* C16: a stack whose pattern matches none of the identifiers its backend
\* lists has no path: expand_conf raises nothing, requests no resources
\* and returns an empty host map; the merge leaves the result, the caches
\* and the output as they are, and expand_stacks goes on with the next
\* stack definition.
NoMatch ==
    /\ pc = "path"
    /\ \A k \in DOMAIN all_stacks.v :
          ~ MatchesAtStart(stacks[si].config["name"], all_stacks.v[k])

C16_Empty ==
    NoMatch =>
        /\ paths = <<>>
        /\ sret = <<>>
        /\ error = NoErr
        /\ last_call.op = "get_stacks"
        /\ ~ ENABLED FetchExtract
        /\ ENABLED MergeStack

C16_Continues ==
    NoMatch =>
        /\ pc' = "stack"
        /\ si' = si + 1
        /\ ret' = ret
        /\ requests' = requests
        /\ cache' = cache
        /\ stdout' = stdout
        /\ error' = NoErr
        /\ (ENABLED ExpandPaths \/ ENABLED Return)'

C16_ZeroMatches == [] C16_Empty /\ [][C16_Continues]_vars

\* the first stack matched nothing of a listing that is not empty, and the
\* second one gave the hosts that are returned
C16_Witness ==
    /\ pc = "done"
    /\ Len(stacks) = 2
    /\ stacks[1].config["name"] = re_b
    /\ server.ids # <<>>
    /\ out # <<>>
    /\ \A k \in DOMAIN processed : processed[k].si = 2

-----------------------------------------------------------------------------
\* C17: every host record get_hosts returns carries in its variables
\* terraform_stack, the identifier of the stack its kept record was
\* extracted from, and terraform_driver, the effective driver of the stack
\* definition that extracted it; its origin metadata holds the same two
\* values.
Produces(k, name) ==
    LET e == processed[k]
        resources == cache[e.b][e.url].v
    IN /\ EffectiveDriver(stacks[e.si]) = "ansible_host"
       /\ \E q \in Range(ValidInstances(resources)) : Hostname(resources, q) = name

\* the first extraction, in processing order, that produced the name
Origin(name) ==
    processed[CHOOSE k \in DOMAIN processed :
                 Produces(k, name) /\ \A j \in 1..(k - 1) : ~ Produces(j, name)]

C17_Tagged ==
    pc = "done" =>
        \A i \in DOMAIN out :
            LET rec == Deref(cache, out[i].ref)
                e == Origin(out[i].name)
            IN /\ out[i].ref.b = e.b
               /\ out[i].ref.url = e.url
               /\ rec["vars"]["terraform_stack"] = e.path
               /\ rec["vars"]["terraform_driver"] = EffectiveDriver(stacks[e.si])
               /\ rec["terraform"] = [stack |-> rec["vars"]["terraform_stack"],
                                      driver |-> rec["vars"]["terraform_driver"]]

\* a host kept from a stack that takes its driver from the backend, in a
\* run that dropped a duplicate
C17_Witness ==
    /\ pc = "done"
    /\ stdout # <<>>
    /\ Len(out) >= 2
    /\ \E i \in DOMAIN out : stacks[Origin(out[i].name).si].config["driver"] = None

-----------------------------------------------------------------------------
(* The exclude inventory plugin (plugins/inventory/exclude.py).  Host and  *)
(* group names are strings; the inventory it starts from holds two hosts   *)
(* and two groups, with any membership and an optional nesting.            *)

MaxExclude == 2     \* longest exclude_hosts and exclude_groups lists

HostOrder == <<"h1", "h2">>
GroupNames == {"beta", "devel"}

\* the groups below group (itself included), by the child relation
RECURSIVE get_descendants(_, _, _)
get_descendants(inv, found, n) ==
    IF n = 0 THEN found
    ELSE get_descendants(inv,
             found \cup {c[3] : c \in {d \in inv.children :
                                          d[2] = "group" /\ d[1] \in found}},
             n - 1)

\* Group.get_hosts: the hosts of the group and of the groups below it
get_hosts_of(inv, group) ==
    LET kids == get_descendants(inv, {group}, Cardinality(inv.groups))
    IN SelectSeq(HostOrder,
                 LAMBDA h : h \in inv.hosts
                            /\ \E k \in kids : <<k, "host", h>> \in inv.children)

\* InventoryData.get_groups_dict
get_groups_dict(inv) == [g \in inv.groups |-> get_hosts_of(inv, g)]

\* InventoryData.get_host: None when the inventory has no such host
get_host(inv, host) == IF host \in inv.hosts THEN host ELSE None

\* InventoryData.remove_host
remove_host(inv, h) ==
    [inv EXCEPT !.hosts = @ \ {h},
                !.children = {c \in @ : ~ (c[2] = "host" /\ c[3] = h)}]

\* InventoryData.remove_group
remove_group(inv, group) ==
    [inv EXCEPT !.groups = @ \ {group},
                !.children = {c \in @ : c[1] # group}]

\* parse lines 71-75
RECURSIVE exclude_host_groups(_, _)
exclude_host_groups(exclude_groups, groups_dict) ==
    IF exclude_groups = <<>> THEN <<>>
    ELSE (IF Head(exclude_groups) \in DOMAIN groups_dict
          THEN groups_dict[Head(exclude_groups)] ELSE <<>>)
         \o exclude_host_groups(Tail(exclude_groups), groups_dict)

\* parse lines 79-83; hosts_dict is the copy of inventory.hosts taken at
\* line 63, and remove_host(None) raises on None.name
RECURSIVE exclude_hosts_loop(_, _, _)
exclude_hosts_loop(inv, exclude_hosts, hosts_dict) ==
    IF exclude_hosts = <<>> THEN [err |-> NoErr, inv |-> inv]
    ELSE IF Head(exclude_hosts) \notin hosts_dict
         THEN exclude_hosts_loop(inv, Tail(exclude_hosts), hosts_dict)
         ELSE LET h == get_host(inv, Head(exclude_hosts))
              IN IF h = None
                 THEN [err |-> "AttributeError", inv |-> inv]
                 ELSE exclude_hosts_loop(remove_host(inv, h), Tail(exclude_hosts),
                                         hosts_dict)

\* parse lines 86-91
RECURSIVE exclude_groups_loop(_, _, _)
exclude_groups_loop(inv, exclude_groups, groups_dict) ==
    IF exclude_groups = <<>> THEN inv
    ELSE IF Head(exclude_groups) \in DOMAIN groups_dict
         THEN exclude_groups_loop(remove_group(inv, Head(exclude_groups)),
                                  Tail(exclude_groups), groups_dict)
         ELSE exclude_groups_loop(inv, Tail(exclude_groups), groups_dict)

ExcludeInventories ==
    {[hosts |-> Range(HostOrder), groups |-> GroupNames, children |-> c, vars |-> <<>>] :
        c \in SUBSET ({<<g, "host", h>> : g \in GroupNames, h \in Range(HostOrder)}
                        \cup {<<"beta", "group", "devel">>})}

ExcludeOptions ==
    {[exclude_hosts |-> eh, exclude_groups |-> eg] :
        eh \in SeqsUpTo(Range(HostOrder) \cup {"ghost"}, MaxExclude),
        eg \in SeqsUpTo(GroupNames \cup {"nogroup"}, MaxExclude)}

InitExclude ==
    /\ pc = "parse"
    /\ error = NoErr
    /\ inventory \in ExcludeInventories
    /\ options \in ExcludeOptions
    /\ TerraformIdle
    /\ ExcludeIdle
    /\ JerakiaIdle
    /\ DotIdle
    /\ IncludeIdle

\* InventoryModule.parse of the exclude plugin
Exclude_parse ==
    /\ pc = "parse"
    /\ LET groups_dict == get_groups_dict(inventory)
           hosts_dict == inventory.hosts
           exclude_hosts_group == exclude_host_groups(options.exclude_groups, groups_dict)
           exclude_hosts == options.exclude_hosts \o exclude_hosts_group
           r == exclude_hosts_loop(inventory, exclude_hosts, hosts_dict)
       IN /\ group_dict' = groups_dict
          /\ host_dict' = hosts_dict
          /\ options' = [options EXCEPT !.exclude_hosts = exclude_hosts]
          /\ IF r.err # NoErr
             THEN /\ inventory' = r.inv
                  /\ Raise(r.err)
             ELSE /\ inventory' = exclude_groups_loop(r.inv, options.exclude_groups,
                                                       groups_dict)
                  /\ pc' = "parsed"
                  /\ UNCHANGED error
    /\ UNCHANGED <<tf_vars, jerakia_vars, include_vars, dot_vars>>

NextExclude == Exclude_parse

SpecExclude == InitExclude /\ [][NextExclude]_vars

-----------------------------------------------------------------------------
\* C18: the exclude plugin's parse removes from the inventory every host
\* listed in exclude_hosts, every host that was in a group listed in
\* exclude_groups and every listed group, and nothing else.
InGroup(inv, h, g) ==
    \/ <<g, "host", h>> \in inv.children
    \/ /\ <<g, "group", "devel">> \in inv.children
       /\ <<"devel", "host", h>> \in inv.children

Selected(h) ==
    \/ h \in Range(options.exclude_hosts)
    \/ \E g \in Range(options.exclude_groups) \cap inventory.groups :
          InGroup(inventory, h, g)

C18_Step ==
    pc = "parse" =>
        /\ inventory'.hosts = {h \in inventory.hosts : ~ Selected(h)}
        /\ inventory'.groups = inventory.groups \ Range(options.exclude_groups)

C18_Excludes == [][C18_Step]_vars

-----------------------------------------------------------------------------
(* The cache of the jerakia inventory plugin (plugins/inventory/jerakia.py, *)
(* InventoryModule.parse).  The plugin looks one key up for every host;    *)
(* the Jerakia server answers with a payload or with a bad status.         *)

\* str.lower on the values the cache setting can have
lower(str) ==
    CASE str = "True" -> "true"
      [] str = "TRUE" -> "true"
      [] str = "False" -> "false"
      [] str = "T" -> "t"
      [] OTHER -> str

\* str(bool)
str_bool(b) == IF b THEN "True" ELSE "False"

\* parse lines 296-299: environment variable first, then the option
get_cache_enabled(env, option) ==
    lower(IF env # None THEN env ELSE str_bool(option)) \in {"true", "1", "t"}

\* a plan that does not write the cache on a refresh
cache_plan_no_refresh(enabled, use_cache, cached) ==
    LET attempt_to_read_cache == enabled /\ use_cache
        cache_needs_update == attempt_to_read_cache /\ ~ cached
    IN [read |-> attempt_to_read_cache,
        lookup |-> ~ attempt_to_read_cache \/ cache_needs_update,
        update |-> cache_needs_update]

\* parse lines 302, 311-331: what is done for one host; cached says whether
\* self._cache has the key of the host
cache_plan(enabled, use_cache, cached) ==
    LET attempt_to_read_cache == enabled /\ use_cache
        cache_needs_update ==
            (enabled /\ ~ use_cache) \/ (attempt_to_read_cache /\ ~ cached)
    IN [read |-> attempt_to_read_cache,
        lookup |-> ~ attempt_to_read_cache \/ cache_needs_update,
        update |-> cache_needs_update]

\* get_cache_key(f"{path}/{host_name}")
get_cache_key(path, host_name) == <<path, host_name>>

\* Jerakia.lookup and lookup_host_data for the one key of `keys`
lookup_host_data(resp) ==
    IF resp.status = HTTP_OK
    THEN [err |-> NoErr, results |-> [motd |-> resp.payload]]
    ELSE [err |-> "AnsibleError:Bad HTTP response", results |-> <<>>]

JerakiaResponses ==
    {[status |-> 200, payload |-> "v1"], [status |-> 200, payload |-> "v2"],
     [status |-> 500, payload |-> None]}

\* the hosts of the inventory in iteration order
inventory_hosts(inv) == SelectSeq(HostOrder, LAMBDA h : h \in inv.hosts)

JerakiaOptions ==
    {[path |-> "zzz.jerakia.yml", cache |-> c, env |-> e, use_cache |-> u] :
        c \in BOOLEAN, e \in {None, "true", "T", "1", "false", "yes"}, u \in BOOLEAN}

InitJerakia ==
    /\ pc = "parse"
    /\ error = NoErr
    /\ options \in JerakiaOptions
    /\ \E hs \in SUBSET Range(HostOrder) :
          inventory = [hosts |-> hs, groups |-> {}, children |-> {}, vars |-> <<>>]
    /\ \E ks \in SUBSET Range(HostOrder) :
          plugin_cache = [k \in {get_cache_key(options.path, h) : h \in ks} |->
                            [motd |-> "old"]]
    /\ lookups = <<>>
    /\ hi = 0
    /\ cache_enabled = FALSE
    /\ TerraformIdle
    /\ ExcludeIdle
    /\ DotIdle
    /\ IncludeIdle

\* parse lines 285-305: the configuration is read and the Jerakia client
\* built, which needs its configuration file
Jerakia_parse_start ==
    /\ pc = "parse"
    /\ cache_enabled' = get_cache_enabled(options.env, options.cache)
    /\ \E isfile \in BOOLEAN :
          IF ~ isfile THEN Raise("AnsibleError:Unable to find configuration file") /\ hi' = hi
          ELSE /\ hi' = 1
               /\ pc' = IF inventory_hosts(inventory) = <<>> THEN "parsed" ELSE "hosts"
               /\ UNCHANGED error
    /\ UNCHANGED <<tf_vars, options, inventory, exclude_vars, include_vars, plugin_cache, lookups,
                   dot_vars>>

\* one host of the loop, with the answer resp of the server when asked
parse_host(resp) ==
    LET host_name == inventory_hosts(inventory)[hi]
        cache_key == get_cache_key(options.path, host_name)
        plan == cache_plan(cache_enabled, options.use_cache,
                           cache_key \in DOMAIN plugin_cache)
        looked == lookup_host_data(resp)
        results == IF plan.lookup THEN looked.results ELSE plugin_cache[cache_key]
    IN /\ lookups' = IF plan.lookup
                     THEN Append(lookups, [host |-> host_name, err |-> looked.err,
                                           results |-> looked.results])
                     ELSE lookups
       /\ IF plan.lookup /\ looked.err # NoErr
          THEN /\ Raise(looked.err)
               /\ UNCHANGED <<plugin_cache, inventory, hi>>
          ELSE /\ plugin_cache' = IF plan.update
                                  THEN Update(plugin_cache, cache_key :> results)
                                  ELSE plugin_cache
               /\ inventory' = set_variables(inventory, host_name, results)
               /\ hi' = hi + 1
               /\ pc' = IF hi = Len(inventory_hosts(inventory)) THEN "parsed" ELSE "hosts"
               /\ UNCHANGED error

\* parse lines 306-343 for one host; compose, groups and keyed_groups have
\* their default, empty, value
Jerakia_parse_host ==
    /\ pc = "hosts"
    /\ \E resp \in JerakiaResponses : parse_host(resp)
    /\ UNCHANGED <<tf_vars, options, exclude_vars, include_vars, cache_enabled, dot_vars>>

NextJerakia ==
    \/ Jerakia_parse_start
    \/ Jerakia_parse_host

SpecJerakia == InitJerakia /\ [][NextJerakia]_vars

-----------------------------------------------------------------------------
\* C19: for every host of the jerakia plugin's parse: with caching enabled
\* and the cache flag true, an entry under the host's key means no lookup
\* and the cached variables applied, no entry means a lookup whose result
\* is stored under the key; with caching enabled and the flag false the
\* lookup is made and the entry overwritten; with caching disabled the
\* lookup is made, its result applied and the cache left as it is.
CachingEnabled ==
    IF options.env = None THEN options.cache
    ELSE options.env \in {"true", "True", "TRUE", "t", "T", "1"}

ThisHost == inventory_hosts(inventory)[hi]
ThisKey == <<options.path, ThisHost>>
LookedUp == Len(lookups') = Len(lookups) + 1 /\ lookups'[Len(lookups')].host = ThisHost
Looked == lookups'[Len(lookups')]
Applied(results) ==
    \A var \in DOMAIN results :
        var \in DOMAIN inventory'.vars[ThisHost]
        /\ inventory'.vars[ThisHost][var] = results[var]
Stored(results) ==
    /\ plugin_cache' = [k \in DOMAIN plugin_cache \cup {ThisKey} |->
                          IF k = ThisKey THEN results ELSE plugin_cache[k]]
    /\ Applied(results)

C19_Step ==
    pc = "hosts" =>
        /\ (CachingEnabled /\ options.use_cache /\ ThisKey \in DOMAIN plugin_cache) =>
              /\ lookups' = lookups
              /\ plugin_cache' = plugin_cache
              /\ Applied(plugin_cache[ThisKey])
        /\ (CachingEnabled /\ options.use_cache /\ ThisKey \notin DOMAIN plugin_cache) =>
              /\ LookedUp
              /\ IF Looked.err = NoErr THEN Stored(Looked.results)
                 ELSE plugin_cache' = plugin_cache
        /\ (CachingEnabled /\ ~ options.use_cache) =>
              /\ LookedUp
              /\ IF Looked.err = NoErr THEN Stored(Looked.results)
                 ELSE plugin_cache' = plugin_cache
        /\ ~ CachingEnabled =>
              /\ LookedUp
              /\ plugin_cache' = plugin_cache
              /\ Looked.err = NoErr => Applied(Looked.results)

C19_CachePlan == [][C19_Step]_vars

\* a refresh that replaced the entry of the second host after the first
\* host's entry was replaced too
C19_Witness ==
    /\ pc = "parsed"
    /\ cache_enabled
    /\ ~ options.use_cache
    /\ Len(lookups) = 2
    /\ \A h \in Range(HostOrder) :
          /\ <<options.path, h>> \in DOMAIN plugin_cache
          /\ plugin_cache[<<options.path, h>>]["motd"] # "old"
    /\ options.env = "T"

-----------------------------------------------------------------------------
(* Jerakia.dot_to_dictval, the dotted-path lookup of the jerakia plugins.  *)
(* A Python value is a mapping [t |-> "dict", v |-> function], an integer  *)
(* [t |-> "int", v |-> n] or PyNone; a string is a sequence of characters. *)

DotDepth == 2       \* deepest nesting of the mappings looked into
MaxSegments == 2    \* most segments of a dotted key

PyInt(n) == [t |-> "int", v |-> n]

\* str.split('.')
RECURSIVE split_dot(_)
split_dot(str) ==
    IF \A n \in DOMAIN str : str[n] # "."
    THEN <<str>>
    ELSE LET n == CHOOSE m \in DOMAIN str :
                      str[m] = "." /\ \A l \in 1..(m - 1) : str[l] # "."
         IN <<SubSeq(str, 1, n - 1)>> \o split_dot(SubSeq(str, n + 1, Len(str)))

\* '.'.join(list)
RECURSIVE join_dot(_)
join_dot(list) ==
    IF list = <<>> THEN <<>>
    ELSE IF Len(list) = 1 THEN list[1]
    ELSE list[1] \o <<".">> \o join_dot(Tail(list))

\* a lookup that honours the flag for the first segment only
RECURSIVE dot_to_dictval_strict_below(_, _, _)
dot_to_dictval_strict_below(dic, key, ignore) ==
    LET key_arr == split_dot(key)
        this_key == Head(key_arr)
    IN IF dic.t # "dict" THEN [err |-> "TypeError", val |-> PyNone]
       ELSE IF this_key \notin DOMAIN dic.v
       THEN IF ignore = FALSE
            THEN [err |-> "AnsibleError:Cannot find key", val |-> PyNone]
            ELSE [err |-> NoErr, val |-> PyNone]
       ELSE IF Len(Tail(key_arr)) = 0 THEN [err |-> NoErr, val |-> dic.v[this_key]]
       ELSE dot_to_dictval_strict_below(dic.v[this_key], join_dot(Tail(key_arr)), FALSE)

\* Jerakia.dot_to_dictval of the lookup plugin; ignore is
\* self.ignore_missing_keys.  `in` raises TypeError on a value that is no
\* container.
RECURSIVE dot_to_dictval(_, _, _)
dot_to_dictval(dic, key, ignore) ==
    LET key_arr == split_dot(key)
        this_key == Head(key_arr)
    IN IF dic.t # "dict" THEN [err |-> "TypeError", val |-> PyNone]
       ELSE IF this_key \notin DOMAIN dic.v
       THEN IF ignore = FALSE
            THEN [err |-> "AnsibleError:Cannot find key", val |-> PyNone]
            ELSE [err |-> NoErr, val |-> PyNone]
       ELSE IF Len(Tail(key_arr)) = 0 THEN [err |-> NoErr, val |-> dic.v[this_key]]
       ELSE dot_to_dictval(dic.v[this_key], join_dot(Tail(key_arr)), ignore)

\* Jerakia.dot_to_dictval of the inventory plugin, which has no flag
RECURSIVE inventory_dot_to_dictval(_, _)
inventory_dot_to_dictval(dic, key) ==
    LET key_arr == split_dot(key)
        this_key == Head(key_arr)
    IN IF dic.t # "dict" THEN [err |-> "TypeError", val |-> PyNone]
       ELSE IF this_key \notin DOMAIN dic.v
       THEN [err |-> "AnsibleError:Cannot find key", val |-> PyNone]
       ELSE IF Len(Tail(key_arr)) = 0 THEN [err |-> NoErr, val |-> dic.v[this_key]]
       ELSE inventory_dot_to_dictval(dic.v[this_key], join_dot(Tail(key_arr)))

DictKeys == {<<"a">>, <<"b">>}
KeySegments == DictKeys \cup {<<>>}

RECURSIVE Dicts(_)
Dicts(depth) ==
    IF depth = 0 THEN {}
    ELSE LET Values == {PyInt(1)} \cup Dicts(depth - 1)
         IN {PyDict(f) : f \in UNION {[S -> Values] : S \in SUBSET DictKeys}}

SegmentLists == UNION {[1..n -> KeySegments] : n \in 1..MaxSegments}

\* the inventory plugin's class has no ignore_missing_keys attribute: the
\* variable stays FALSE there and is not read
InitDot ==
    /\ pc = "dot"
    /\ error = NoErr
    /\ options \in {[plugin |-> "lookup"], [plugin |-> "inventory"]}
    /\ dot_dic \in Dicts(DotDepth)
    /\ dot_key \in {join_dot(list) : list \in SegmentLists}
    /\ ignore_missing_keys \in (IF options.plugin = "lookup" THEN BOOLEAN ELSE {FALSE})
    /\ dot_ret = PyNone
    /\ inventory = NoInventory
    /\ TerraformIdle
    /\ ExcludeIdle
    /\ JerakiaIdle
    /\ IncludeIdle

Returns(r) ==
    IF r.err # NoErr
    THEN Raise(r.err) /\ UNCHANGED dot_ret
    ELSE dot_ret' = r.val /\ pc' = "returned" /\ UNCHANGED error

Lookup_dot_to_dictval ==
    /\ pc = "dot"
    /\ options.plugin = "lookup"
    /\ Returns(dot_to_dictval(dot_dic, dot_key, ignore_missing_keys))
    /\ UNCHANGED <<tf_vars, options, inventory, exclude_vars, jerakia_vars,
                   include_vars,
                   dot_dic, dot_key, ignore_missing_keys>>

Inventory_dot_to_dictval ==
    /\ pc = "dot"
    /\ options.plugin = "inventory"
    /\ Returns(inventory_dot_to_dictval(dot_dic, dot_key))
    /\ UNCHANGED <<tf_vars, options, inventory, exclude_vars, jerakia_vars,
                   include_vars,
                   dot_dic, dot_key, ignore_missing_keys>>

NextDot ==
    \/ Lookup_dot_to_dictval
    \/ Inventory_dot_to_dictval

SpecDot == InitDot /\ [][NextDot]_vars

-----------------------------------------------------------------------------
\* C20: dot_to_dictval(dic, 'k1.k2...kn') returns the value reached by
\* walking the segments k1, ..., kn in order through the nested mappings;
\* when a segment is missing from the mapping reached, at whatever depth,
\* it raises an error if ignore_missing_keys is false (the inventory
\* plugin's variant has no flag and always raises) and returns None if it
\* is true.
RECURSIVE Reach(_, _, _)
Reach(val, list, n) ==
    IF n > Len(list) THEN [kind |-> "value", val |-> val, depth |-> n - 1]
    ELSE IF val.t # "dict" THEN [kind |-> "not_mapping", val |-> PyNone, depth |-> n]
    ELSE IF list[n] \notin DOMAIN val.v THEN [kind |-> "missing", val |-> PyNone, depth |-> n]
    ELSE Reach(val.v[list[n]], list, n + 1)

\* the segment lists the key stands for
PathsOf(str) == {list \in SegmentLists : join_dot(list) = str}

C20_DottedPath ==
    pc \in {"returned", "failed"} =>
        \A list \in PathsOf(dot_key) :
            LET end == Reach(dot_dic, list, 1)
            IN /\ end.kind = "value" => pc = "returned" /\ dot_ret = end.val
               /\ (end.kind = "missing" /\ ignore_missing_keys) =>
                      pc = "returned" /\ dot_ret = PyNone
               /\ (end.kind = "missing" /\ ~ ignore_missing_keys) =>
                      pc = "failed" /\ error = "AnsibleError:Cannot find key"

\* a path that crosses a value that is no mapping raises TypeError with
\* either setting of the flag
DotNotMapping ==
    pc \in {"returned", "failed"} =>
        \A list \in PathsOf(dot_key) :
            Reach(dot_dic, list, 1).kind = "not_mapping" =>
                pc = "failed" /\ error = "TypeError"

\* 'a.b' looked up with the flag set in a mapping whose 'a' is a mapping
\* without 'b'
C20_Witness ==
    /\ pc = "returned"
    /\ options.plugin = "lookup"
    /\ ignore_missing_keys
    /\ dot_key = <<"a", ".", "b">>
    /\ Reach(dot_dic, <<<<"a">>, <<"b">>>>, 1).kind = "missing"
    /\ Reach(dot_dic, <<<<"a">>, <<"b">>>>, 1).depth = 2
    /\ dot_ret = PyNone

-----------------------------------------------------------------------------
\* C21: every host record a driver returns for a resource list comes from
\* an instance of a resource whose type is one of the driver's declared
\* types; a resource of another type, or without a type, gives no host.
\* The same holds for the host map of the stack being expanded.
DeclaredType(resource, cls) ==
    "type" \in DOMAIN resource /\ resource["type"] \in driver_types(cls)

C21_DeclaredTypes ==
    /\ Extracted =>
          LET cls == driver_map[LastDriver]
              fed == Driver_get_hosts(cls, last_call.val.v,
                                      Driver_new(cls, last_call.val).data)
          IN \A k \in DOMAIN fed.ret :
                DeclaredType(last_call.val.v[fed.ret[k].r], cls)
    /\ pc = "path" =>
          \A i \in DOMAIN sret :
              DeclaredType(cache[sret[i].ref.b][sret[i].ref.url].v[sret[i].ref.r],
                           driver_map[EffectiveDriver(stacks[si])])

\* a resource list with an aws_instance resource whose instance names
\* node3, next to ansible_host resources that gave the hosts of the stack
C21_Witness ==
    /\ Extracted
    /\ LastDriver = "ansible_host"
    /\ \E r \in DOMAIN last_call.val.v :
          /\ last_call.val.v[r]["type"] = "aws_instance"
          /\ last_call.val.v[r]["instances"][1]["attributes"]["inventory_hostname"] = node3
    /\ Len(sret) = 2
    /\ node3 \notin Names(sret)

-----------------------------------------------------------------------------
\* C22: one call of AnsibleHost.loop_over_hosts returns one entry for every
\* distinct hostname of the instances with attributes; the entry is the
\* first instance, in encounter order, that carries the hostname; every
\* later instance with a hostname already taken is dropped and a message
\* naming the hostname is written for it, in encounter order.
FirstWith(resources, vi, name) ==
    vi[CHOOSE k \in DOMAIN vi :
          /\ Hostname(resources, vi[k]) = name
          /\ \A j \in 1..(k - 1) : Hostname(resources, vi[j]) # name]

\* the instances that carry a hostname an earlier instance carries
Later(resources, vi) ==
    SelectSeq([k \in DOMAIN vi |-> k],
              LAMBDA k : \E j \in 1..(k - 1) :
                            Hostname(resources, vi[j]) = Hostname(resources, vi[k]))

C22_FirstInstanceKept ==
    (Extracted /\ LastDriver = "ansible_host") =>
        LET resources == last_call.val.v
            vi == ValidInstances(resources)
            later == Later(resources, vi)
            fed == Driver_get_hosts("AnsibleHost", resources,
                                    Driver_new("AnsibleHost", last_call.val).data)
        IN /\ fed.err = NoErr
           /\ Names(fed.ret) = {Hostname(resources, vi[k]) : k \in DOMAIN vi}
           /\ Cardinality(Names(fed.ret)) = Len(fed.ret)
           /\ \A k \in DOMAIN fed.ret :
                 <<fed.ret[k].r, fed.ret[k].i>> = FirstWith(resources, vi, fed.ret[k].name)
           /\ Len(fed.msgs) = Len(later)
           /\ \A k \in DOMAIN later :
                 fed.msgs[k] = [at |-> "driver", host |-> Hostname(resources, vi[later[k]])]
           /\ \A k \in DOMAIN fed.msgs : \E n \in DOMAIN stdout : stdout[n] = fed.msgs[k]

\* three instances, the last two with the same hostname: two entries, the
\* second one the second instance, and one message
C22_Witness ==
    /\ Extracted
    /\ LastDriver = "ansible_host"
    /\ Len(ValidInstances(last_call.val.v)) = 3
    /\ Hostname(last_call.val.v, <<1, 2>>) = Hostname(last_call.val.v, <<1, 3>>)
    /\ Len(sret) = 2
    /\ sret[2].ref.i = 2
    /\ \E n \in DOMAIN stdout : stdout[n] = [at |-> "driver", host |-> node2]

-----------------------------------------------------------------------------
\* C23: a get_stacks or get_resources call that ends in an error leaves
\* the cache of every backend as it was; a call adds an entry only when it
\* ends normally on an answer with status 200 and a list as its body, and
\* then the value it stores and returns is the decoded one: the list of
\* identifiers, or the `resources` of the state document decoded from the
\* first Value; every value a cache holds is a list or None, never a Value
\* or its base64-decoded text.
Called == last_call'.n = last_call.n + 1

Added == last_call'.url \in DOMAIN cache'[last_call'.b] \ DOMAIN cache[last_call'.b]

DecodedResources(resp) ==
    LET doc == FirstValued(resp).data.data
    IN IF "resources" \in DOMAIN doc THEN PyList("dict", doc["resources"]) ELSE PyNone

C23_Step ==
    Called =>
        /\ last_call'.err # NoErr => cache' = cache
        /\ Added =>
              /\ last_call'.err = NoErr
              /\ ~ TransportFailure(last_call'.resp)
              /\ last_call'.resp.body.t = "list"
              /\ last_call'.op = "get_stacks" =>
                    /\ last_call'.val.t = "list"
                    /\ last_call'.val.of = "str"
                    /\ cache'[last_call'.b][last_call'.url] = last_call'.val
              /\ last_call'.op = "get_resources" =>
                    /\ HasValued(last_call'.resp)
                    /\ ~ Undecodable(FirstValued(last_call'.resp))
                    /\ last_call'.val = DecodedResources(last_call'.resp)

C23_Held ==
    \A b \in DOMAIN cache : \A u \in DOMAIN cache[b] :
        /\ "t" \in DOMAIN cache[b][u]
        /\ cache[b][u].t \in {"list", "None"}

C23_DecodedOnly == [] C23_Held /\ [][C23_Step]_vars

\* a fetch that failed on a Value that is not base64, after the listing
\* was cached: the cache holds the listing and nothing under the url
C23_Witness ==
    /\ pc = "failed"
    /\ last_call.op = "get_resources"
    /\ last_call.err = "binascii.Error"
    /\ DOMAIN cache[last_call.b] = {get_url(backends[last_call.b].config,
                                            backends[last_call.b].config["prefix"])}

-----------------------------------------------------------------------------
(* A server that keeps silent.  kv_get calls requests.get(url, params=..., *)
(* headers=...) without a timeout argument (line 577), and requests waits  *)
(* without limit then: the call does not return while the server sends     *)
(* nothing.  pc = "request" is get_hosts inside that call.                 *)

\* the url of the request the run is about to make, if it is about to
NextRequest ==
    IF pc = "stack" /\ si <= Len(stacks) /\ backends[stacks[si].backend].cls # "str"
    THEN LET bk == backends[stacks[si].backend]
         IN IF Cached(bk, bk.config["prefix"]) THEN <<>>
            ELSE <<[b |-> bk.name, url |-> get_url(bk.config, bk.config["prefix"])]>>
    ELSE IF pc = "path" /\ pi <= Len(paths)
    THEN LET bk == backends[stacks[si].backend]
             k == bk.config["prefix"] \o paths[pi]
         IN IF Cached(bk, k) THEN <<>>
            ELSE <<[b |-> bk.name, url |-> get_url(bk.config, k)]>>
    ELSE <<>>

\* kv_get lines 571-577 when the server never answers
KvGetSilent ==
    /\ NextRequest # <<>>
    /\ requests' = [requests EXCEPT ![NextRequest[1].b] = Append(@, NextRequest[1].url)]
    /\ pc' = "request"
    /\ UNCHANGED <<stacks_conf, backends_conf, server, backends, cache, stacks, si,
                   all_stacks, paths, pi, sret, ret, out, error, stdout, last_call,
                   processed>>
    /\ UNCHANGED <<options, inventory, exclude_vars, jerakia_vars, include_vars, dot_vars>>

NextSilent ==
    \/ Next
    \/ KvGetSilent

\* the runs of the end-to-end case and of the fixed configurations
InitSilent ==
    /\ Init
    /\ IsE2E \/ \E c \in Cases : stacks_conf = c.stacks /\ backends_conf = c.backends

\* the interpreter goes on with the run whenever it can
SpecSilent == InitSilent /\ [][NextSilent]_vars /\ WF_vars(NextSilent)

\* C24: a request that the backend never answers ends, after the timeout
\* of the request, as a transport error, and the run terminates.
Terminated == pc \in {"parsed", "failed"}

C24_TimesOut == (pc = "request") ~> Terminated

-----------------------------------------------------------------------------
(* The include inventory plugin (plugins/inventory/include.py,             *)
(* InventoryModule.parse).  A file of `files` is a path (a string or       *)
(* another YAML value) with what loader.load_from_file gives for it: an    *)
(* exception, None for an empty file or a mapping.  Which plugins parse a  *)
(* file without an exception is the environment's choice at each path.     *)

MaxFiles == 2       \* longest `files` list
MaxPlugins == 2     \* longest `inventory_plugins` list

\* the plugins inventory_loader.get knows; for another name it returns None
\* and None.parse raises AttributeError inside the try
KnownPlugins == {"yaml", "ini"}
PluginNames == KnownPlugins \cup {"nope"}

\* lines 101-103: duplicates removed, order kept
RECURSIVE remove_duplicates(_, _)
remove_duplicates(raw, kept) ==
    IF raw = <<>> THEN kept
    ELSE remove_duplicates(Tail(raw),
                           IF Head(raw) \in Range(kept) THEN kept
                           ELSE Append(kept, Head(raw)))

\* lines 115-119
plugin_names_of(config_data, inventory_plugins) ==
    LET plugin_name == IF "plugin" \in DOMAIN config_data.v
                       THEN config_data.v["plugin"] ELSE None
    IN IF plugin_name # None THEN <<plugin_name>> ELSE inventory_plugins

\* a loop that goes on with the next plugin after one parsed the file
RECURSIVE try_plugins_all(_, _)
try_plugins_all(plugin_names, accepts) ==
    IF plugin_names = <<>> THEN <<>>
    ELSE <<[name |-> Head(plugin_names), ok |-> Head(plugin_names) \in accepts]>>
            \o try_plugins_all(Tail(plugin_names), accepts)

\* lines 123-143: the plugins tried for one path, with the outcome of each
\* parse; accepts are the plugins whose parse raises nothing
RECURSIVE try_plugins(_, _)
try_plugins(plugin_names, accepts) ==
    IF plugin_names = <<>> THEN <<>>
    ELSE IF Head(plugin_names) \in accepts
    THEN <<[name |-> Head(plugin_names), ok |-> TRUE]>>
    ELSE <<[name |-> Head(plugin_names), ok |-> FALSE]>>
            \o try_plugins(Tail(plugin_names), accepts)

IncludeFiles ==
    {[path |-> PyInt(42), load |-> PyNone],
     [path |-> [t |-> "str"], load |-> [t |-> "raises"]],
     [path |-> [t |-> "str"], load |-> PyNone],
     [path |-> [t |-> "str"], load |-> PyDict(<<>>)],
     [path |-> [t |-> "str"], load |-> PyDict([plugin |-> "yaml"])],
     [path |-> [t |-> "str"], load |-> PyDict([plugin |-> "nope"])]}

\* C.INVENTORY_ENABLED
EnabledPlugins == {<<"yaml", "ini">>, <<"ini">>}

IncludeOptions ==
    {[plugin |-> "include", inventory_plugins |-> ps, files |-> fs, enabled |-> en] :
        ps \in SeqsUpTo(PluginNames, MaxPlugins),
        fs \in SeqsUpTo(IncludeFiles, MaxFiles),
        en \in EnabledPlugins}

InitInclude ==
    /\ pc = "parse"
    /\ error = NoErr
    /\ options \in IncludeOptions
    /\ inventory = NoInventory
    /\ path_i = 0
    /\ tried = <<>>
    /\ TerraformIdle
    /\ ExcludeIdle
    /\ JerakiaIdle
    /\ DotIdle

\* parse lines 86-106
Include_parse_start ==
    /\ pc = "parse"
    /\ path_i' = 1
    /\ pc' = IF options.files = <<>> THEN "parsed" ELSE "files"
    /\ UNCHANGED <<tf_vars, error, options, inventory, exclude_vars, jerakia_vars,
                   dot_vars, tried>>

\* the body of the loop over paths for a file that loaded as a mapping
include_path(accepts) ==
    LET inventory_plugins ==
            remove_duplicates(options.inventory_plugins \o options.enabled, <<>>)
        plugin_names == plugin_names_of(options.files[path_i].load, inventory_plugins)
        attempts == try_plugins(plugin_names, accepts)
    IN /\ tried' = tried \o [k \in DOMAIN attempts |->
                               [path |-> path_i, name |-> attempts[k].name,
                                ok |-> attempts[k].ok]]
       /\ inventory' =
             IF attempts # <<>> /\ attempts[Len(attempts)].ok
             THEN add_host(inventory, [file |-> path_i,
                                       plugin |-> attempts[Len(attempts)].name])
             ELSE inventory

\* parse lines 107-147 for one path.  update_cache_if_changed (lines
\* 137-140) changes nothing here; its AttributeError is swallowed.
Include_parse_path ==
    /\ pc = "files"
    /\ LET file == options.files[path_i]
       IN IF file.path.t # "str"
          THEN /\ path_i' = path_i + 1
               /\ pc' = IF path_i = Len(options.files) THEN "parsed" ELSE "files"
               /\ UNCHANGED <<error, inventory, tried>>
          ELSE IF file.load.t = "raises"
          THEN Raise("AnsibleParserError") /\ UNCHANGED <<inventory, path_i, tried>>
          ELSE IF file.load.t = "None"
          THEN Raise("AttributeError") /\ UNCHANGED <<inventory, path_i, tried>>
          ELSE /\ \E accepts \in SUBSET KnownPlugins : include_path(accepts)
               /\ path_i' = path_i + 1
               /\ pc' = IF path_i = Len(options.files) THEN "parsed" ELSE "files"
               /\ UNCHANGED error
    /\ UNCHANGED <<tf_vars, options, exclude_vars, jerakia_vars, dot_vars>>

NextInclude ==
    \/ Include_parse_start
    \/ Include_parse_path

SpecInclude == InitInclude /\ [][NextInclude]_vars

-----------------------------------------------------------------------------
\* C25: for every path of `files` that is a string and loads as a mapping,
\* in order: the candidates are the plugin the file names if it names one,
\* else the inventory_plugins option followed by the enabled plugins
\* without the later occurrences of a name; they are tried in that order up
\* to and including the first whose parse raises nothing; when all of them
\* fail nothing is raised and the next path is processed.
FirstOccurrences(list) ==
    SelectSeq([k \in DOMAIN list |-> k],
              LAMBDA k : \A j \in 1..(k - 1) : list[j] # list[k])

CandidatePlugins(file) ==
    IF "plugin" \in DOMAIN file.load.v THEN <<file.load.v["plugin"]>>
    ELSE LET raw == options.inventory_plugins \o options.enabled
             first == FirstOccurrences(raw)
         IN [k \in DOMAIN first |-> raw[first[k]]]

Loadable(file) == file.path.t = "str" /\ file.load.t = "dict"

C25_Step ==
    (pc = "files" /\ Loadable(options.files[path_i])) =>
        LET cands == CandidatePlugins(options.files[path_i])
            new == SubSeq(tried', Len(tried) + 1, Len(tried'))
        IN /\ SubSeq(tried', 1, Len(tried)) = tried
           /\ Len(new) <= Len(cands)
           /\ \A k \in DOMAIN new :
                 /\ new[k].path = path_i
                 /\ new[k].name = cands[k]
                 /\ new[k].ok => k = Len(new)
           /\ cands # <<>> => new # <<>>
           /\ (new # <<>> /\ Len(new) < Len(cands)) => new[Len(new)].ok
           /\ pc' # "failed"
           /\ error' = NoErr
           /\ path_i' = path_i + 1
           /\ pc' = "parsed" <=> path_i = Len(options.files)

-----------------------------------------------------------------------------
\* C26: the backend that parse_backends builds for a definition of type
\* local (the type assumed when none is given) is a backend object that
\* answers get_stacks and get_resources, and the expansion of a stack bound
\* to it raises nothing.
IsLocal(n) == backend_kind(backends_conf[n]) = "local"

C26_LocalResolves ==
    /\ \A n \in DOMAIN backends : IsLocal(n) => backends[n].cls # "str"
    /\ (si \in DOMAIN stacks /\ IsLocal(stacks[si].backend)) => pc # "failed"

-----------------------------------------------------------------------------
\* C27: the listing and a resource list are never stored under the same
\* key of a backend's cache: no get_resources call uses the url of the
\* listing, and no get_resources call returns a list of identifiers.
ListingUrl(b) == get_url(backends[b].config, backends[b].config["prefix"])

C27_KeysApart ==
    last_call.op = "get_resources" =>
        /\ last_call.url # ListingUrl(last_call.b)
        /\ ~ (last_call.val.t = "list" /\ last_call.val.of = "str")

-----------------------------------------------------------------------------
\* C28: when get_resources returns None because no entry of the payload
\* has a Value, the driver of the stack (a registered one) is built and run
\* on it without an exception,
\* the path is recorded as processed with no host, and the run goes on.
NullResources ==
    /\ last_call.op = "get_resources"
    /\ last_call.req
    /\ last_call.err = NoErr
    /\ ~ HasValued(last_call.resp)
    /\ last_call.val = PyNone

C28_NullGivesNoHost ==
    (NullResources /\ EffectiveDriver(stacks[si]) \in DOMAIN driver_map) =>
        /\ pc # "failed"
        /\ processed # <<>>
        /\ processed[Len(processed)].url = last_call.url

-----------------------------------------------------------------------------
\* C29: with strict set, the hosts get_hosts returned stay distinct in the
\* inventory: parse adds as many hosts as the host map has names, and every
\* host carries the variables of its own record.
HostOf(i) == CHOOSE h \in inventory.hosts :
                 \A k \in DOMAIN h : h[k] = out[i].name[k] \/ (h[k] = "-" /\ out[i].name[k] = "_")

C29_StrictDistinct ==
    (pc = "parsed" /\ options.strict) =>
        /\ Cardinality(inventory.hosts) = Len(out)
        /\ \A i \in DOMAIN out :
              \A var \in DOMAIN Deref(cache, out[i].ref)["vars"] :
                  host_vars(inventory, HostOf(i))[var] = Deref(cache, out[i].ref)["vars"][var]

====
